---- MODULE Spec2Model ----
(***************************************************************************)
(* Position lifecycle coordinator of the trading bot                       *)
(* (src/src/trading/position_manager.py), the main loop and signal handler *)
(* that drive it (src/src/main.py), and the order tracker's map            *)
(* (src/src/trading/order_tracker.py).                                     *)
(*                                                                         *)
(* Every coroutine is cut at its awaits: one action is the code that runs  *)
(* between two suspension points of the asyncio loop.  The exchange, the   *)
(* wallet and the order history are the environment: each reply is chosen  *)
(* when the awaited call returns.                                          *)
(*                                                                         *)
(* Money: prices are exact rationals counted in micro-USDT (1e-6 USDT),    *)
(* quantities are exact rationals counted in units of the instrument.      *)
(***************************************************************************)
EXTENDS Integers, Sequences, FiniteSets, TLC

-----------------------------------------------------------------------------
(* Bounds of the exploration *)

\* invocations of execute_multi_signal
MaxCalls == 2
\* orders the exchange accepts
MaxOrders == 2
\* hours the clock runs
MaxNow == 26
\* signals given to _handle_signal
MaxHandled == 1
\* passes of the order tracker's _check_orders
MaxTicks == 1
\* bars the exchange pushes on the kline topics
MaxBars == 2
\* _ws_callback coroutines alive on the event loop together
MaxTasks == 2
\* reconnects made by the WebSocket watchdogs
MaxReconnects == 1
\* sockets the WebSocket client opens on one topic
MaxSockets == 4
\* reconnects of the silent key
MaxSilentReconnects == 11
\* restarts of the bot on the database of its previous run
MaxBoots == 1
MaxPolls == 2
DispatchRounds == 1
\* confirmed bars the exchange pushes to the strategy
MaxStrategyBars == 3
\* the largest tick_window of a signal
MaxTickWindow == 2
\* calls of the exchange client
MaxClientCalls == 4
\* calls of normalize_order
MaxNormalizeCalls == 1
\* the last minute of the daily-report clock, and the main-loop iterations
\* that reach _check_daily_report
MaxReportMinute == 1450
MaxReportChecks == 3
\* Config.max_stop_loss_streak, as read by the coordinator and the main loop
max_stop_loss_streak_cap == 1

-----------------------------------------------------------------------------
(* Exact rational arithmetic: [n |-> numerator, d |-> denominator], d > 0, *)
(* always reduced.  d = 0 stands for Python's None.                        *)

RECURSIVE Gcd(_, _)
Gcd(a, b) == IF b = 0 THEN a ELSE Gcd(b, a % b)

Abs(x) == IF x < 0 THEN -x ELSE x

Rat(n, d) ==
    LET g == Gcd(Abs(n), d)
    IN  IF n = 0 THEN [n |-> 0, d |-> 1] ELSE [n |-> n \div g, d |-> d \div g]

NoneRat == [n |-> 0, d |-> 0]

RatInt(i) == [n |-> i, d |-> 1]

RatLE(a, b) == a.n * b.d <= b.n * a.d

RatLT(a, b) == a.n * b.d < b.n * a.d

RatSub(a, b) == Rat(a.n * b.d - b.n * a.d, a.d * b.d)

\* product with cross-cancellation, so that intermediate values stay small
RatMul(a, b) ==
    LET g1 == IF a.n = 0 THEN 1 ELSE Gcd(Abs(a.n), b.d)
        g2 == IF b.n = 0 THEN 1 ELSE Gcd(Abs(b.n), a.d)
    IN  Rat((a.n \div g1) * (b.n \div g2), (a.d \div g2) * (b.d \div g1))

\* x is an exact integer multiple of step (step > 0)
IsMultipleOf(x, step) == RatMul(x, [n |-> step.d, d |-> step.n]).d = 1

\* nearest integer to n/d for n >= 0 (what "%.Nf" does to a value that is
\* not a tie)
RoundDiv(n, d) == (2 * n + d) \div (2 * d)

-----------------------------------------------------------------------------
(* Configuration (src/src/config.py) *)

Strategies == {"A", "B", "C"}

\* StrategyConfig.position_size (USDT)
position_size == [s \in Strategies |-> IF s = "C" THEN 3 ELSE 100]

\* StrategyConfig.stop_take_percent as a fraction of 1000 (0.005)
stop_take_permille == 5

\* StrategyConfig.trade_pairs[0]
trade_pairs == [s \in Strategies |->
                  IF s = "A" THEN "WIFUSDT" ELSE IF s = "B" THEN "BTCUSDT" ELSE "SOLUSDT"]

\* the minimum position size of _open_multi_position (USDT)
MinPositionUsdt == 5

\* SignalResult inputs: strategy_name, action, target_price (micro-USDT)
SignalInputs ==
    { [strategy_name |-> "A", action |-> "Buy",  target_price |-> 415000],
      [strategy_name |-> "A", action |-> "Sell", target_price |-> 415000],
      [strategy_name |-> "B", action |-> "Buy",  target_price |-> 1000000],
      [strategy_name |-> "C", action |-> "Buy",  target_price |-> 415000] }

NoSig == [strategy_name |-> "", action |-> "", target_price |-> 0]

\* replies of get_wallet_balance: -1 is a failed call, else totalEquity (USDT)
WalletReplies == {-1, 0, 10000}

\* avgPrice of the matching history record, as an offset from the entry price
CloseOffsets == {-6000, -1000, 1000, 6000}

\* the strategies that register with the GlobalMarketDataManager, each with
\* one signal (SignalConfig.index, SignalConfig.frame) and its trade_pairs
DataStrategies == {"A", "B", "C", "D", "E"}

signals ==
    [s \in DataStrategies |->
        IF s \in {"A", "B"} THEN [index |-> "BTCUSDT", frame |-> "1"]
        ELSE IF s = "C" THEN [index |-> "BTCUSDT", frame |-> "5"]
        ELSE IF s = "D" THEN [index |-> "BTCUSDT", frame |-> "5s"]
        ELSE [index |-> "WIFUSDT", frame |-> "5s"]]

data_trade_pairs ==
    [s \in DataStrategies |->
        IF s \in {"A", "B", "D"} THEN << "WIFUSDT" >> ELSE << "SOLUSDT" >>]

\* register_strategy: "polling" if frame.endswith("s") else "websocket"
SourceType(frame) == IF frame \in {"1s", "5s"} THEN "polling" ELSE "websocket"

\* the strategies with WebSocket frames and those with polling frames
WsStrategies == { s \in DataStrategies : SourceType(signals[s].frame) = "websocket" }
PollStrategies == DataStrategies \ WsStrategies

\* the order in which the strategies are created and registered
RegistrationOrder == << "A", "B", "C", "D", "E" >>

\* the kline topics on which the exchange pushes bars in the exploration
PushedKeys == { << "BTCUSDT", "1" >>, << "BTCUSDT", "5" >> }

\* the StrategyConfig of the MultiSignalStrategy: its signals in the order
\* of config.signals, and its trade_pairs; tick_window, reverse and the
\* strategy's direction are part of the state
SignalNames == << "s1", "s2" >>

signal_config ==
    [n \in {"s1", "s2"} |->
        IF n = "s1"
        THEN [index |-> "BTCUSDT", frame |-> "1", index_change_threshold |-> 1, target |-> 2,
              direction |-> 0]
        ELSE [index |-> "SOLUSDT", frame |-> "5", index_change_threshold |-> 1, target |-> 2,
              direction |-> 0]]

signal_trade_pairs == << "WIFUSDT" >>

TradePairs == { signal_trade_pairs[i] : i \in DOMAIN signal_trade_pairs }

\* subscriptions of _start_websocket_subscriptions
StrategyKeys ==
    UNION { { << signal_config[n].index, signal_config[n].frame >> }
              \cup { << p, signal_config[n].frame >> : p \in TradePairs }
            : n \in DOMAIN signal_config }

\* closes of the bars the exchange pushes, and of the bars of the history
Closes == { 99, 101, 102 }
HistoryClose == 100
\* lastPrice of a ticker
TickerPrice == 100

\* every (symbol, frame) a strategy can ask for
Keys ==
    UNION { { << signals[s].index, signals[s].frame >> }
              \cup { << data_trade_pairs[s][i], signals[s].frame >> : i \in DOMAIN data_trade_pairs[s] }
            : s \in DataStrategies }
    \cup StrategyKeys

Symbols == { k[1] : k \in Keys }

\* BybitWebSocketClient.max_reconnect_attempts
max_reconnect_attempts == 10

-----------------------------------------------------------------------------
(* State *)

VARIABLES
    open_positions,        \* PositionManager.open_positions: insertion-ordered dict, pair_name -> order
    orders,                \* the OrderRecord objects in memory, by id
    dbOrders,              \* table orders of the database, by id
    dbSignals,             \* table signals of the database, by id
    tracking_orders,       \* OrderTracker.tracking_orders: dict, order_id -> order
    wallet_balance,        \* PositionManager.wallet_balance (USDT)
    total_trades,
    profitable_trades,
    stop_loss_streak,
    max_stop_loss_streak,
    calls,                 \* the invocations of execute_multi_signal, each with its locals
    ml,                    \* TradingBot._main_loop and the check_positions pass it is in
    handled,               \* what TradingBot._handle_signal did with the signals it was given
    now,                   \* datetime.now(), in hours since the start
    tr,                    \* OrderTracker._monitor_loop and the _check_orders pass it is in
    boots,                 \* how many times TradingBot._initialize has run on an existing database
    md,                    \* GlobalMarketDataManager: subscriptions, registered_strategies, is_running, ...
    ws,                    \* BybitWebSocketClient: the sockets it opened and kline_callbacks, by ws_key
    feed,                  \* the exchange: the bars it has pushed on each kline topic
    tasks,                 \* the _ws_callback coroutines scheduled on the event loop, in order
    delivered,             \* which bar has been passed to which strategy's callback
    pollers,               \* the _polling_loop tasks, by frame
    mss,                   \* MultiSignalStrategy: its config, signal_buffers, what it emitted
    on_kline,              \* the _on_kline_data coroutines scheduled on the event loop, in order
    bc,                    \* BybitClient: request_count, error_count and the outcome of its last call
    normalized,            \* the arguments and the result of the last normalize_order call
    report                 \* TradingBot.daily_report_sent, the wall clock and the reports sent

vars == << open_positions, orders, dbOrders, dbSignals, tracking_orders, wallet_balance,
           total_trades, profitable_trades, stop_loss_streak, max_stop_loss_streak,
           calls, ml, handled, now, tr, boots,
           md, ws, feed, tasks, delivered, pollers, mss, on_kline, bc, normalized, report >>

\* the state of the exchange client
clientVars == << bc, normalized >>

\* the state of the daily report
reportVars == << report >>

\* the state of the strategy engine
stratVars == << mss, on_kline >>

\* the state of the market data components
dataVars == << md, ws, feed, tasks, delivered, pollers, stratVars, clientVars, reportVars >>

\* the state of the coordinator, the position manager and the order tracker
botVars == << open_positions, orders, dbOrders, dbSignals, tracking_orders, wallet_balance,
              total_trades, profitable_trades, stop_loss_streak, max_stop_loss_streak,
              calls, ml, handled, now, tr, boots, clientVars, reportVars >>

\* the state of the trading components
tradeVars == << botVars, stratVars >>

\* the state of the components that the coordinator's own steps never touch
restVars == << tr, boots, dataVars >>

pmStats == << total_trades, profitable_trades, stop_loss_streak, max_stop_loss_streak >>

Calls == 1 .. MaxCalls

-----------------------------------------------------------------------------
(* Python dict with its insertion order: a sequence of [k, v] entries *)

DictKeys(d) == { d[i].k : i \in DOMAIN d }

DictHas(d, key) == key \in DictKeys(d)

DictGet(d, key) == d[CHOOSE i \in DOMAIN d : d[i].k = key].v

DictSet(d, key, val) ==
    IF DictHas(d, key)
    THEN [i \in DOMAIN d |-> IF d[i].k = key THEN [k |-> key, v |-> val] ELSE d[i]]
    ELSE Append(d, [k |-> key, v |-> val])

DictDel(d, key) == SelectSeq(d, LAMBDA e : e.k # key)

RECURSIVE DictDelAll(_, _)
DictDelAll(d, ks) == IF ks = << >> THEN d ELSE DictDelAll(DictDel(d, Head(ks)), Tail(ks))

-----------------------------------------------------------------------------
(* Initial state: the objects as their constructors leave them *)

NewCall ==
    [ pc |-> "new", sig |-> NoSig, signal_id |-> 0, executed |-> FALSE,
      notified_error |-> FALSE, side |-> "", quantity |-> NoneRat,
      take_profit |-> NoneRat, stop_loss |-> NoneRat,
      placed |-> [qty |-> -1, take_profit |-> -1, stop_loss |-> -1],
      order |-> 0, ret |-> "" ]

IdleLoop ==
    [ pc |-> "top", it_pos |-> 0, it_used |-> 0, closed_pairs |-> << >>,
      pair_name |-> "", order |-> 0 ]

\* seen: for the symbol checked last, the orderStatus found in its history for
\* each order of that symbol ("" when no record has the order's orderId)
IdleTracker == [ pc |-> "sleep", groups |-> << >>, seen |-> << >>, ticks |-> 0 ]

\* deque(maxlen=window_size) of _initialize_buffers
WindowSize(tick_window) == IF tick_window > 0 THEN tick_window ELSE 2

\* MultiSignalStrategy.__init__ for a config with the given direction and
\* tick_window of each signal
NewStrategy(direction, tick_window) ==
    [ direction |-> direction,
      tick_window |-> tick_window,
      reverse |-> [n \in DOMAIN signal_config |-> IF n = "s1" THEN 0 ELSE 1],
      maxlen |-> [n \in DOMAIN signal_config |-> WindowSize(tick_window[n])],
      signal_buffers |-> [n \in DOMAIN signal_config |->
                            [ index_prices |-> << >>,
                              target_prices |-> [p \in TradePairs |-> << >>] ]],
      emitted |-> {},
      bars |-> 0,
      phase |-> "created" ]

InitComponents ==
    /\ open_positions = << >>
    /\ orders = << >>
    /\ dbOrders = << >>
    /\ dbSignals = << >>
    /\ tracking_orders = << >>
    /\ wallet_balance = 0
    /\ total_trades = 0
    /\ profitable_trades = 0
    /\ stop_loss_streak = 0
    /\ max_stop_loss_streak = 0
    /\ calls = [c \in Calls |-> NewCall]
    /\ ml = IdleLoop
    /\ handled = << >>
    /\ now = 0
    /\ tr = IdleTracker
    /\ boots = 0
    /\ md = [ subscriptions |-> << >>, registered_strategies |-> {},
              is_running |-> FALSE, active_ws_subscriptions |-> {}, activations |-> 0 ]
    /\ ws = [ sockets |-> [k \in Keys |-> << >>], kline_callbacks |-> [k \in Keys |-> 0],
              watchdogs |-> [k \in Keys |-> << >>], reconnects |-> 0 ]
    /\ feed = [k \in Keys |-> << >>]
    /\ tasks = << >>
    /\ delivered = {}
    /\ pollers = << >>
    /\ on_kline = << >>
    /\ bc = [ request_count |-> 0, error_count |-> 0, calls |-> 0,
              last |-> [ fn |-> "", outcome |-> "", ret |-> "", raised |-> FALSE ] ]
    /\ normalized = [ called |-> FALSE ]
    /\ report = [ daily_report_sent |-> FALSE, pc |-> "idle", minutes |-> 0, checks |-> 0,
                  sent_day |-> -1, sent_count |-> 0 ]

\* the bot with a strategy whose direction is 0 and whose signals have
\* tick_window 0
Init ==
    /\ InitComponents
    /\ mss = NewStrategy(0, [n \in DOMAIN signal_config |-> 0])

-----------------------------------------------------------------------------
(* PositionManager.execute_multi_signal and _open_multi_position *)

\* faulty variant of the circuit-breaker test: strict comparison
StreakLimitExceeded(streak) == streak > max_stop_loss_streak_cap

\* the circuit-breaker test of execute_multi_signal and of _main_loop
StreakLimitReached(streak) == streak >= max_stop_loss_streak_cap

\* side = "Buy" if sig_result.action == "Buy" else "Sell"
SideOf(action) == IF action = "Buy" THEN "Buy" ELSE "Sell"

\* quantity = position_size_usdt / sig_result.target_price
QuantityOf(size_usdt, price) == Rat(size_usdt * 1000000, price)

\* take_profit = target_price * (1 +/- stop_take_percent)
TakeProfitOf(action, price) ==
    IF action = "Buy" THEN Rat(price * (1000 + stop_take_permille), 1000)
                      ELSE Rat(price * (1000 - stop_take_permille), 1000)

\* stop_loss = target_price * (1 -/+ stop_take_percent)
StopLossOf(action, price) ==
    IF action = "Buy" THEN Rat(price * (1000 - stop_take_permille), 1000)
                      ELSE Rat(price * (1000 + stop_take_permille), 1000)

\* f"{quantity:.4f}": the decimal string, as a count of 1e-4 units
FormatQty(q) == (q.n \div q.d) * 10000 + RoundDiv((q.n % q.d) * 10000, q.d)

\* f"{price:.8f}": the decimal string of a price in USDT, as a count of 1e-8 USDT
FormatPrice(x) == (x.n \div x.d) * 100 + RoundDiv((x.n % x.d) * 100, x.d)

\* OrderRecord(...) of _open_multi_position
NewOrderRecord(id, call, exchange_id) ==
    [ id |-> id,
      pair_name |-> call.sig.strategy_name,
      symbol |-> trade_pairs[call.sig.strategy_name],
      order_id |-> exchange_id,
      side |-> call.side,
      quantity |-> call.quantity,
      entry_price |-> RatInt(call.sig.target_price),
      take_profit |-> call.take_profit,
      stop_loss |-> call.stop_loss,
      status |-> "OPEN",
      opened_at |-> now,
      closed_at |-> -1,
      close_price |-> NoneRat,
      pnl |-> NoneRat,
      close_reason |-> "None" ]

\* OrderTracker.track_order
TrackOrder(tracking, order) ==
    IF order.order_id # 0 THEN DictSet(tracking, order.order_id, order.id) ELSE tracking

Return(c, value) == [calls EXCEPT ![c].pc = "done", ![c].ret = value]

\* execute_multi_signal up to its first await: save the SignalRecord, test the
\* streak, test open_positions, look the strategy up
ExecuteMultiSignal(c, sig) ==
    /\ calls[c].pc = "new"
    /\ IF c = 1 THEN TRUE ELSE calls[c - 1].pc # "new"    \* invocations are numbered in order
    /\ dbSignals' = Append(dbSignals,
                           [ pair_name |-> sig.strategy_name, action |-> sig.action,
                             target_price |-> sig.target_price, executed |-> FALSE ])
    /\ LET started == [calls EXCEPT ![c].sig = sig, ![c].signal_id = Len(dbSignals) + 1]
       IN  calls' =
             IF StreakLimitReached(stop_loss_streak)
             THEN [started EXCEPT ![c].pc = "notify_error", ![c].notified_error = TRUE]
             ELSE IF DictHas(open_positions, sig.strategy_name)
             THEN [started EXCEPT ![c].pc = "done", ![c].ret = "False"]
             ELSE IF sig.strategy_name \notin Strategies
             THEN [started EXCEPT ![c].pc = "done", ![c].ret = "False"]
             ELSE [started EXCEPT ![c].pc = "get_wallet_balance"]
    /\ UNCHANGED restVars
    /\ UNCHANGED << open_positions, orders, dbOrders, tracking_orders, wallet_balance,
                    pmStats, ml, handled, now >>

\* notifier.notify_error returned: return False
NotifyErrorReturn(c) ==
    /\ calls[c].pc = "notify_error"
    /\ calls' = Return(c, "False")
    /\ UNCHANGED restVars
    /\ UNCHANGED << open_positions, orders, dbOrders, dbSignals, tracking_orders,
                    wallet_balance, pmStats, ml, handled, now >>

\* _update_wallet_balance returned; balance and size tests; the order is sent
WalletBalanceReturn(c, reply) ==
    /\ calls[c].pc = "get_wallet_balance"
    /\ wallet_balance' = IF reply = -1 THEN wallet_balance ELSE reply
    /\ LET sig == calls[c].sig
           size == position_size[sig.strategy_name]
           qty == QuantityOf(size, sig.target_price)
           tp == TakeProfitOf(sig.action, sig.target_price)
           sl == StopLossOf(sig.action, sig.target_price)
       IN  calls' =
             IF wallet_balance' <= 0
             THEN Return(c, "False")
             ELSE IF size < MinPositionUsdt
             THEN Return(c, "False")
             ELSE [calls EXCEPT ![c].pc = "place_market_order",
                                ![c].side = SideOf(sig.action),
                                ![c].quantity = qty,
                                ![c].take_profit = tp,
                                ![c].stop_loss = sl,
                                ![c].placed = [ qty |-> FormatQty(qty),
                                               take_profit |-> FormatPrice(tp),
                                               stop_loss |-> FormatPrice(sl) ]]
    /\ UNCHANGED restVars
    /\ UNCHANGED << open_positions, orders, dbOrders, dbSignals, tracking_orders,
                    pmStats, ml, handled, now >>

\* faulty variant of the failed placement: the trade is counted all the same
PlaceOrderFailedCounted(c) ==
    /\ calls[c].pc = "place_market_order"
    /\ calls' = Return(c, "False")
    /\ total_trades' = total_trades + 1
    /\ UNCHANGED restVars
    /\ UNCHANGED << open_positions, orders, dbOrders, dbSignals, tracking_orders,
                    wallet_balance, profitable_trades, stop_loss_streak,
                    max_stop_loss_streak, ml, handled, now >>

\* place_market_order returned nothing: return False
PlaceOrderFailed(c) ==
    /\ calls[c].pc = "place_market_order"
    /\ calls' = Return(c, "False")
    /\ UNCHANGED restVars
    /\ UNCHANGED << open_positions, orders, dbOrders, dbSignals, tracking_orders,
                    wallet_balance, pmStats, ml, handled, now >>

\* place_market_order returned a result: create, persist, register, track, count
PlaceOrderSucceeded(c) ==
    /\ calls[c].pc = "place_market_order"
    /\ Len(dbOrders) < MaxOrders
    /\ LET id == Len(dbOrders) + 1
           order == NewOrderRecord(id, calls[c], id)
       IN  /\ dbOrders' = Append(dbOrders, order)
           /\ orders' = Append(orders, order)
           /\ open_positions' = DictSet(open_positions, order.pair_name, id)
           /\ tracking_orders' = TrackOrder(tracking_orders, order)
           /\ calls' = [calls EXCEPT ![c].pc = "notify_signal", ![c].order = id]
    /\ total_trades' = total_trades + 1
    /\ UNCHANGED restVars
    /\ UNCHANGED << dbSignals, wallet_balance, profitable_trades, stop_loss_streak,
                    max_stop_loss_streak, ml, handled, now >>

\* notifier.notify_signal returned: _open_multi_position returns True and
\* execute_multi_signal sets signal_record.executed on its local record
NotifySignalReturn(c) ==
    /\ calls[c].pc = "notify_signal"
    /\ calls' = [calls EXCEPT ![c].pc = "done", ![c].ret = "True", ![c].executed = TRUE]
    /\ UNCHANGED restVars
    /\ UNCHANGED << open_positions, orders, dbOrders, dbSignals, tracking_orders,
                    wallet_balance, pmStats, ml, handled, now >>

-----------------------------------------------------------------------------
(* PositionManager.check_positions and _handle_position_closed, driven by  *)
(* TradingBot._main_loop                                                   *)

\* the replies of get_order_history for an order: no record with its orderId,
\* or a record with an avgPrice
HistoryReplies(order) ==
    { [match |-> FALSE, avgPrice |-> 0] } \cup
    { [match |-> TRUE, avgPrice |-> order.entry_price.n + d] : d \in CloseOffsets }

\* close_price = float(hist_order.get('avgPrice', ...)), or the entry price
ClosePriceOf(order, reply) ==
    IF reply.match THEN RatInt(reply.avgPrice) ELSE order.entry_price

\* the close reason of _handle_position_closed
CloseReasonOf(order, reply) ==
    IF ~reply.match THEN "UNKNOWN"
    ELSE IF RatLE(order.take_profit, ClosePriceOf(order, reply)) THEN "TP"
    ELSE IF RatLE(ClosePriceOf(order, reply), order.stop_loss) THEN "SL"
    ELSE "MANUAL"

\* pnl of _handle_position_closed (micro-USDT)
PnlOf(order, close_price) ==
    IF order.side = "Buy"
    THEN RatMul(RatSub(close_price, order.entry_price), order.quantity)
    ELSE RatMul(RatSub(order.entry_price, close_price), order.quantity)

\* faulty variant of the streak rule: a profitable close does not reset
StreakAfterCloseWithoutReset(streak, pnl, reason) ==
    IF pnl.n <= 0 /\ reason = "SL" THEN streak + 1 ELSE streak

\* the streak after a close: "if pnl > 0: ... = 0 / else: if close_reason == SL: += 1"
StreakAfterClose(streak, pnl, reason) ==
    IF pnl.n > 0 THEN 0
    ELSE IF reason = "SL" THEN streak + 1
    ELSE streak

ClosedRecord(order, reply) ==
    [order EXCEPT !.status = "CLOSED",
                  !.closed_at = now,
                  !.close_price = ClosePriceOf(order, reply),
                  !.pnl = PnlOf(order, ClosePriceOf(order, reply)),
                  !.close_reason = CloseReasonOf(order, reply)]

\* database.update_order(order.id, status=..., closed_at=..., close_price=..., pnl=..., close_reason=...)
UpdateOrderRow(row, closed) ==
    [row EXCEPT !.status = closed.status,
                !.closed_at = closed.closed_at,
                !.close_price = closed.close_price,
                !.pnl = closed.pnl,
                !.close_reason = closed.close_reason]

\* the next step of "for pair_name, order in self.open_positions.items()":
\* the dict iterator raises RuntimeError when the dict changed size, the loop
\* ends after the last entry (then the closed pairs are deleted and the pass
\* returns), else the next entry is taken and get_position is awaited.
\* The main loop catches the RuntimeError and starts over.
CheckPositionsNext(m, op) ==
    IF Len(op) # m.it_used
    THEN [ml |-> IdleLoop, op |-> op]
    ELSE IF m.it_pos > Len(op)
    THEN [ml |-> IdleLoop, op |-> DictDelAll(op, m.closed_pairs)]
    ELSE [ml |-> [m EXCEPT !.pc = "get_position",
                           !.pair_name = op[m.it_pos].k,
                           !.order = op[m.it_pos].v,
                           !.it_pos = m.it_pos + 1],
          op |-> op]

\* one iteration of _main_loop up to its first await: halted while the streak
\* is at its limit, else a check_positions pass begins
MainLoopTop ==
    /\ ml.pc = "top"
    /\ IF StreakLimitReached(stop_loss_streak)
       THEN UNCHANGED << ml, open_positions >>
       ELSE LET next == CheckPositionsNext(
                            [IdleLoop EXCEPT !.it_pos = 1, !.it_used = Len(open_positions)],
                            open_positions)
            IN  /\ ml' = next.ml
                /\ open_positions' = next.op
    /\ UNCHANGED restVars
    /\ UNCHANGED << orders, dbOrders, dbSignals, tracking_orders, wallet_balance,
                    pmStats, calls, handled, now >>

\* get_position returned: no open size => _handle_position_closed begins and
\* awaits get_order_history; else the loop goes on
GetPositionReturn(has_size) ==
    /\ ml.pc = "get_position"
    /\ IF has_size
       THEN LET next == CheckPositionsNext(ml, open_positions)
            IN  /\ ml' = next.ml
                /\ open_positions' = next.op
       ELSE /\ ml' = [ml EXCEPT !.pc = "get_order_history"]
            /\ UNCHANGED open_positions
    /\ UNCHANGED restVars
    /\ UNCHANGED << orders, dbOrders, dbSignals, tracking_orders, wallet_balance,
                    pmStats, calls, handled, now >>

\* get_order_history returned: reconcile the close, persist it, update the
\* statistics; notify_trade_closed is awaited
OrderHistoryReturn(reply) ==
    /\ ml.pc = "get_order_history"
    /\ reply \in HistoryReplies(orders[ml.order])
    /\ LET closed == ClosedRecord(orders[ml.order], reply)
       IN  /\ orders' = [orders EXCEPT ![ml.order] = closed]
           /\ dbOrders' = [dbOrders EXCEPT ![closed.id] = UpdateOrderRow(@, closed)]
           /\ profitable_trades' = IF closed.pnl.n > 0 THEN profitable_trades + 1
                                                       ELSE profitable_trades
           /\ stop_loss_streak' = StreakAfterClose(stop_loss_streak, closed.pnl, closed.close_reason)
           /\ max_stop_loss_streak' =
                IF closed.pnl.n <= 0 /\ closed.close_reason = "SL"
                     /\ stop_loss_streak' > max_stop_loss_streak
                THEN stop_loss_streak' ELSE max_stop_loss_streak
    /\ ml' = [ml EXCEPT !.pc = "notify_trade_closed"]
    /\ UNCHANGED restVars
    /\ UNCHANGED << open_positions, dbSignals, tracking_orders, wallet_balance,
                    total_trades, calls, handled, now >>

\* notify_trade_closed returned: the pair joins closed_pairs and the loop goes on
NotifyClosedReturn ==
    /\ ml.pc = "notify_trade_closed"
    /\ LET next == CheckPositionsNext(
                       [ml EXCEPT !.closed_pairs = Append(@, ml.pair_name)], open_positions)
       IN  /\ ml' = next.ml
           /\ open_positions' = next.op
    /\ UNCHANGED restVars
    /\ UNCHANGED << orders, dbOrders, dbSignals, tracking_orders, wallet_balance,
                    pmStats, calls, handled, now >>

-----------------------------------------------------------------------------
(* TradingBot._handle_signal *)

\* what the handler does with a SignalResult: skip it when the strategy has a
\* position, reject it when slippage_ok is false, else log it
HandleOutcome(has_position, slippage_ok) ==
    IF has_position THEN "position_open"
    ELSE IF ~slippage_ok THEN "slippage_exceeded"
    ELSE "logged"

\* whether the handler calls position_manager.execute_multi_signal
HandlerExecutes(outcome) == FALSE

HandleSignal(sig, slippage_ok) ==
    /\ Len(handled) < MaxHandled
    /\ LET has_position == DictHas(open_positions, sig.strategy_name)
           outcome == HandleOutcome(has_position, slippage_ok)
       IN  handled' = Append(handled,
                             [ slippage_ok |-> slippage_ok,
                               had_position |-> has_position,
                               outcome |-> outcome,
                               execute_called |-> HandlerExecutes(outcome) ])
    /\ UNCHANGED restVars
    /\ UNCHANGED << open_positions, orders, dbOrders, dbSignals, tracking_orders,
                    wallet_balance, pmStats, calls, ml, now >>

-----------------------------------------------------------------------------
(* Time *)

(* OrderTracker (src/src/trading/order_tracker.py) *)

\* symbols_to_check of _check_orders: the tracked orders grouped by symbol,
\* symbols and orders in the insertion order of tracking_orders
RECURSIVE GroupBySymbol(_, _)
GroupBySymbol(entries, groups) ==
    IF entries = << >> THEN groups
    ELSE LET o == Head(entries).v
             sym == orders[o].symbol
         IN  IF \E i \in DOMAIN groups : groups[i].symbol = sym
             THEN GroupBySymbol(Tail(entries),
                     [i \in DOMAIN groups |->
                         IF groups[i].symbol = sym
                         THEN [groups[i] EXCEPT !.orders = Append(@, o)]
                         ELSE groups[i]])
             ELSE GroupBySymbol(Tail(entries),
                     Append(groups, [symbol |-> sym, orders |-> << o >>]))

\* what the history of a symbol can say about one tracked order: no record
\* with its orderId (""), or a record with an orderStatus and an avgPrice
\* (as an offset from the entry price)
TrackerOffsets == {-6000, 6000}

HistoryEntries ==
    { [orderStatus |-> st, offset |-> 0] : st \in {"", "New", "Cancelled"} }
        \cup { [orderStatus |-> "Filled", offset |-> d] : d \in TrackerOffsets }

\* the close reason _process_order_update infers
TrackerCloseReasonOf(order, close_price) ==
    IF RatLE(order.take_profit, close_price) THEN "TP"
    ELSE IF RatLE(close_price, order.stop_loss) THEN "SL"
    ELSE "MANUAL"

\* faulty variant of _process_order_update: a cancelled order is closed
ProcessOrderUpdateCancelledAsClosed(order, hist) ==
    IF hist.orderStatus \in {"Filled", "Cancelled"}
    THEN LET close_price == RatInt(order.entry_price.n + hist.offset)
         IN  [order EXCEPT !.status = "CLOSED", !.closed_at = now,
                           !.close_price = close_price,
                           !.pnl = PnlOf(order, close_price),
                           !.close_reason = TrackerCloseReasonOf(order, close_price)]
    ELSE order

\* _process_order_update on the order object
ProcessOrderUpdate(order, hist) ==
    IF hist.orderStatus = "Filled"
    THEN LET close_price == RatInt(order.entry_price.n + hist.offset)
         IN  [order EXCEPT !.status = "CLOSED", !.closed_at = now,
                           !.close_price = close_price,
                           !.pnl = PnlOf(order, close_price),
                           !.close_reason = TrackerCloseReasonOf(order, close_price)]
    ELSE IF hist.orderStatus = "Cancelled"
    THEN [order EXCEPT !.status = "CANCELLED", !.closed_at = now]
    ELSE order

\* _process_order_update ends with untrack_order for Filled and Cancelled
Untracks(hist) == hist.orderStatus \in {"Filled", "Cancelled"}

\* _monitor_loop wakes up with a non-empty map: _check_orders groups the
\* tracked orders and asks for the history of the first symbol
CheckOrdersStart ==
    /\ tr.pc = "sleep"
    /\ tr.ticks < MaxTicks
    /\ tracking_orders # << >>
    /\ tr' = [tr EXCEPT !.pc = "get_order_history",
                        !.groups = GroupBySymbol(tracking_orders, << >>),
                        !.ticks = @ + 1]
    /\ UNCHANGED << open_positions, orders, dbOrders, dbSignals, tracking_orders,
                    wallet_balance, pmStats, calls, ml, handled, now, boots, dataVars >>

\* get_order_history returned for the first symbol still to check: every
\* order of that symbol with a matching record is processed
TrackerHistoryReturn(reply) ==
    /\ tr.pc = "get_order_history"
    /\ LET group == Head(tr.groups).orders
           PosOf(i) == CHOOSE j \in DOMAIN group : group[j] = i
           InGroup(i) == \E j \in DOMAIN group : group[j] = i
           untracked == { orders[group[j]].order_id : j \in { k \in DOMAIN group : Untracks(reply[k]) } }
       IN  /\ orders' = [i \in DOMAIN orders |->
                            IF InGroup(i) THEN ProcessOrderUpdate(orders[i], reply[PosOf(i)])
                                          ELSE orders[i]]
           /\ tracking_orders' = SelectSeq(tracking_orders, LAMBDA e : e.k \notin untracked)
    /\ LET group == Head(tr.groups).orders
           seen == [j \in DOMAIN group |->
                       [order |-> group[j], orderStatus |-> reply[j].orderStatus]]
       IN  tr' = IF Len(tr.groups) = 1
                 THEN [tr EXCEPT !.pc = "sleep", !.groups = << >>, !.seen = seen]
                 ELSE [tr EXCEPT !.groups = Tail(@), !.seen = seen]
    /\ UNCHANGED << open_positions, dbOrders, dbSignals, wallet_balance, pmStats,
                    calls, ml, handled, now, boots, dataVars >>

-----------------------------------------------------------------------------
\* thirteen hours pass
Tick ==
    /\ now + 13 <= MaxNow
    /\ now' = now + 13
    /\ UNCHANGED restVars
    /\ UNCHANGED << open_positions, orders, dbOrders, dbSignals, tracking_orders,
                    wallet_balance, pmStats, calls, ml, handled >>

-----------------------------------------------------------------------------
(* Specifications *)

Next ==
    \/ \E c \in Calls, sig \in SignalInputs : ExecuteMultiSignal(c, sig)
    \/ \E c \in Calls : NotifyErrorReturn(c)
    \/ \E c \in Calls, reply \in WalletReplies : WalletBalanceReturn(c, reply)
    \/ \E c \in Calls : PlaceOrderFailed(c)
    \/ \E c \in Calls : PlaceOrderSucceeded(c)
    \/ \E c \in Calls : NotifySignalReturn(c)
    \/ MainLoopTop
    \/ \E has_size \in BOOLEAN : GetPositionReturn(has_size)
    \/ /\ ml.pc = "get_order_history"
       /\ \E reply \in HistoryReplies(orders[ml.order]) : OrderHistoryReturn(reply)
    \/ NotifyClosedReturn

Spec == Init /\ [][Next]_vars

\* the coordinator with the clock running
NextClock == Next \/ Tick

SpecClock == Init /\ [][NextClock]_vars

\* the coordinator with the bot's signal handler
NextSignal ==
    \/ Next
    \/ \E sig \in SignalInputs, slippage_ok \in BOOLEAN : HandleSignal(sig, slippage_ok)

SpecSignal == Init /\ [][NextSignal]_vars

(* TradingBot._initialize on the database a previous run has left *)

\* Database.get_open_orders()
GetOpenOrders(db) == SelectSeq(db, LAMBDA row : row.status = "OPEN")

\* "for order in open_orders: open_positions[order.pair_name] = order"
RECURSIVE RestorePositions(_, _)
RestorePositions(rows, op) ==
    IF rows = << >> THEN op
    ELSE RestorePositions(Tail(rows), DictSet(op, Head(rows).pair_name, Head(rows).id))

\* "for order in open_orders: order_tracker.track_order(order)"
RECURSIVE RestoreTracking(_, _)
RestoreTracking(rows, tracking) ==
    IF rows = << >> THEN tracking
    ELSE RestoreTracking(Tail(rows), TrackOrder(tracking, Head(rows)))

\* the process ends, whatever it was doing, and the bot is started again:
\* new objects, the wallet balance fetched by PositionManager.initialize, the
\* OPEN rows of the database put back into open_positions and the tracker
Initialize(reply) ==
    /\ boots < MaxBoots
    /\ boots' = boots + 1
    /\ orders' = dbOrders
    /\ open_positions' = RestorePositions(GetOpenOrders(dbOrders), << >>)
    /\ tracking_orders' = RestoreTracking(GetOpenOrders(dbOrders), << >>)
    /\ wallet_balance' = IF reply = -1 THEN 0 ELSE reply
    /\ total_trades' = 0
    /\ profitable_trades' = 0
    /\ stop_loss_streak' = 0
    /\ max_stop_loss_streak' = 0
    /\ calls' = [c \in Calls |->
                    IF calls[c].pc \in {"new", "done"} THEN calls[c]
                    ELSE [calls[c] EXCEPT !.pc = "done", !.ret = "Killed"]]
    /\ ml' = IdleLoop
    /\ tr' = [IdleTracker EXCEPT !.ticks = tr.ticks]
    /\ UNCHANGED << dbOrders, dbSignals, handled, now, dataVars >>

\* the coordinator and a restart of the bot
NextRestart == Next \/ \E reply \in WalletReplies : Initialize(reply)

SpecRestart == Init /\ [][NextRestart]_vars

\* the coordinator together with the order tracker's monitoring task
NextTracker ==
    \/ Next
    \/ CheckOrdersStart
    \/ /\ tr.pc = "get_order_history"
       /\ \E reply \in [DOMAIN Head(tr.groups).orders -> HistoryEntries] :
              TrackerHistoryReturn(reply)

SpecTracker == Init /\ [][NextTracker]_vars

-----------------------------------------------------------------------------
(* GlobalMarketDataManager (src/src/api/global_market_data_manager.py) and
   BybitWebSocketClient (src/src/api/bybit_websocket_client.py) *)

SubscriptionRequest(strategy, key) ==
    [ strategy_name |-> strategy, symbol |-> key[1], frame |-> key[2],
      source_type |-> SourceType(key[2]) ]

\* _add_subscription
AddSubscription(subs, strategy, key) ==
    IF ~DictHas(subs, key)
    THEN Append(subs, [k |-> key, v |-> << SubscriptionRequest(strategy, key) >>])
    ELSE IF \E i \in DOMAIN DictGet(subs, key) : DictGet(subs, key)[i].strategy_name = strategy
    THEN subs
    ELSE DictSet(subs, key, Append(DictGet(subs, key), SubscriptionRequest(strategy, key)))

\* "for trade_pair in strategy_config.trade_pairs: self._add_subscription(...)"
RECURSIVE AddTradePairs(_, _, _, _)
AddTradePairs(subs, strategy, pairs, frame) ==
    IF pairs = << >> THEN subs
    ELSE AddTradePairs(AddSubscription(subs, strategy, << Head(pairs), frame >>),
                       strategy, Tail(pairs), frame)

\* register_strategy without its "already registered" return
RegisteredAgain(m, s) ==
    [m EXCEPT
        !.subscriptions =
            AddTradePairs(
                AddSubscription(@, s, << signals[s].index, signals[s].frame >>),
                s, data_trade_pairs[s], signals[s].frame),
        !.registered_strategies = @ \cup {s},
        !.activations = IF m.is_running THEN @ + 1 ELSE @]

\* the manager after register_strategy was called for strategy s in state m;
\* when the manager is running the call leaves a task that will run
\* _activate_new_subscriptions
Registered(m, s) ==
    IF s \in m.registered_strategies
    THEN m
    ELSE [m EXCEPT
            !.subscriptions =
                AddTradePairs(
                    AddSubscription(@, s, << signals[s].index, signals[s].frame >>),
                    s, data_trade_pairs[s], signals[s].frame),
            !.registered_strategies = @ \cup {s},
            !.activations = IF m.is_running THEN @ + 1 ELSE @]

\* a call of register_strategy that changes the manager; the strategies of one
\* source type are registered in RegistrationOrder
RegisterStrategy(s) ==
    /\ s \notin md.registered_strategies
    /\ \A i, j \in DOMAIN RegistrationOrder :
          (RegistrationOrder[j] = s /\ i < j /\ SourceType(signals[RegistrationOrder[i]].frame)
                                                 = SourceType(signals[s].frame))
              => RegistrationOrder[i] \in md.registered_strategies
    /\ md' = Registered(md, s)
    /\ UNCHANGED << ws, feed, tasks, delivered, pollers, tradeVars >>

\* ws_subscriptions of _start_websocket_subscriptions: every key of the
\* registry with a websocket subscription
WsSubscriptionKeys(subs) ==
    { subs[i].k : i \in { j \in DOMAIN subs :
                            \E n \in DOMAIN subs[j].v : subs[j].v[n].source_type = "websocket" } }

\* subscribe_kline for each key of the set: a new WebSocket is opened on the
\* key's topic (it will receive the bars pushed from now on), the callback
\* is appended to kline_callbacks[ws_key], and _start_watchdog creates a
\* watchdog task whose reconnect_count is 0
SubscribeKline(w, keys) ==
    [w EXCEPT
        !.sockets = [k \in Keys |-> IF k \in keys THEN Append(w.sockets[k], Len(feed[k]))
                                                  ELSE w.sockets[k]],
        !.kline_callbacks = [k \in Keys |-> IF k \in keys THEN w.kline_callbacks[k] + 1
                                                          ELSE w.kline_callbacks[k]],
        !.watchdogs = [k \in Keys |-> IF k \in keys THEN Append(w.watchdogs[k], 0)
                                                    ELSE w.watchdogs[k]]]

\* the polling subscriptions of one frame, in the order of the registry
RECURSIVE PollingGroup(_, _)
PollingGroup(subs, frame) ==
    IF subs = << >> THEN << >>
    ELSE SelectSeq(Head(subs).v,
                   LAMBDA r : r.source_type = "polling" /\ r.frame = frame)
            \o PollingGroup(Tail(subs), frame)

PollingFrames(subs) ==
    { subs[i].k[2] : i \in { j \in DOMAIN subs :
                               \E n \in DOMAIN subs[j].v : subs[j].v[n].source_type = "polling" } }

NewPoller(frame, group) ==
    [ frame |-> frame, subscriptions |-> group, pc |-> "sleep", symbols |-> << >>,
      symbol |-> "", pos |-> 0, bar |-> 0, rounds |-> 0, errors |-> 0 ]

\* start(): _start_websocket_subscriptions, _start_polling_tasks, is_running
Start ==
    /\ ~md.is_running
    /\ LET keys == WsSubscriptionKeys(md.subscriptions)
       IN  /\ ws' = SubscribeKline(ws, keys)
           /\ md' = [md EXCEPT !.is_running = TRUE,
                               !.active_ws_subscriptions = @ \cup keys]
    /\ pollers' = [f \in PollingFrames(md.subscriptions) |->
                      NewPoller(f, PollingGroup(md.subscriptions, f))]
    /\ UNCHANGED << feed, tasks, delivered, tradeVars >>

\* _activate_new_subscriptions, the task register_strategy created
ActivateNewSubscriptions ==
    /\ md.activations > 0
    /\ LET keys == WsSubscriptionKeys(md.subscriptions)
       IN  /\ ws' = SubscribeKline(ws, keys)
           /\ md' = [md EXCEPT !.activations = @ - 1,
                               !.active_ws_subscriptions = @ \cup keys]
    /\ UNCHANGED << feed, tasks, delivered, pollers, tradeVars >>

\* watchdog task n of ws_key k wakes up in its loop and sees no message for
\* 70 s: it drops the socket from ws_connections, without closing it, calls
\* subscribe_kline again and counts the attempt in its own reconnect_count
WatchdogReconnect(k, n) ==
    /\ n \in DOMAIN ws.watchdogs[k]
    /\ ws.watchdogs[k][n] < max_reconnect_attempts
    /\ ws' = [SubscribeKline(ws, {k}) EXCEPT !.reconnects = @ + 1,
                                             !.watchdogs[k][n] = @ + 1]
    /\ UNCHANGED << md, feed, tasks, delivered, pollers, tradeVars >>

\* a reconnect of ws_key k by one of its watchdogs
Watchdog(k) ==
    /\ ws.reconnects < MaxReconnects
    /\ \E n \in DOMAIN ws.watchdogs[k] : WatchdogReconnect(k, n)

RECURSIVE BarsPushed(_)
BarsPushed(ks) ==
    IF ks = {} THEN 0
    ELSE LET k == CHOOSE x \in ks : TRUE IN Len(feed[k]) + BarsPushed(ks \ {k})

\* the exchange pushes a kline message on the topic of key k
PushBar(k, confirm) ==
    /\ ws.sockets[k] # << >>
    /\ BarsPushed(Keys) < MaxBars
    /\ feed' = [feed EXCEPT ![k] = Append(@, confirm)]
    /\ UNCHANGED << md, ws, tasks, delivered, pollers, tradeVars >>

NewTask(k, n) ==
    [ symbol |-> k[1], key |-> k, bar |-> n, confirm |-> feed[k][n], pc |-> "ready",
      e |-> 0, s |-> 0, it_used |-> 0, errors |-> 0 ]

\* _handle_kline on socket i of ws_key k for the next bar of the topic: one
\* callback(symbol, kline) coroutine is scheduled on the loop for every entry
\* of kline_callbacks[ws_key]
HandleKline(k, i) ==
    /\ i \in DOMAIN ws.sockets[k]
    /\ ws.sockets[k][i] < Len(feed[k])
    /\ Len(tasks) + ws.kline_callbacks[k] <= MaxTasks
    /\ LET n == ws.sockets[k][i] + 1
       IN  /\ ws' = [ws EXCEPT !.sockets[k][i] = n]
           /\ tasks' = tasks \o [j \in 1 .. ws.kline_callbacks[k] |-> NewTask(k, n)]
    /\ UNCHANGED << md, feed, delivered, pollers, tradeVars >>

\* the loops of _ws_callback from entry e of the registry (outer: the dict
\* iterator steps to entry e; otherwise subscription s of entry e is next):
\* the next subscription the bar is passed to, or the end of the loops, or the
\* RuntimeError of a dict whose size changed while it was iterated
RECURSIVE WsCallbackScan(_, _, _, _, _)
WsCallbackScan(symbol, e, s, it_used, outer) ==
    LET subs == md.subscriptions
    IN  IF outer
        THEN IF Len(subs) # it_used THEN [kind |-> "error", e |-> e, s |-> s]
             ELSE IF e > Len(subs) THEN [kind |-> "done", e |-> e, s |-> s]
             ELSE IF subs[e].k[1] # symbol THEN WsCallbackScan(symbol, e + 1, 1, it_used, TRUE)
             ELSE WsCallbackScan(symbol, e, 1, it_used, FALSE)
        ELSE IF s > Len(subs[e].v) THEN WsCallbackScan(symbol, e + 1, 1, it_used, TRUE)
             ELSE IF subs[e].v[s].source_type = "websocket"
                  THEN [kind |-> "deliver", e |-> e, s |-> s]
                  ELSE WsCallbackScan(symbol, e, s + 1, it_used, FALSE)

RemoveAt(seq, i) == SubSeq(seq, 1, i - 1) \o SubSeq(seq, i + 1, Len(seq))

\* task i goes on from the scan result: it awaits the callback of the
\* subscription found, or it is over
WsCallbackGoesOn(i, it_used, found) ==
    IF found.kind = "deliver"
    THEN /\ tasks' = [tasks EXCEPT ![i].pc = "in_callback", ![i].e = found.e,
                                   ![i].s = found.s, ![i].it_used = it_used]
         /\ delivered' = delivered \cup
                { [ strategy_name |-> md.subscriptions[found.e].v[found.s].strategy_name,
                    key |-> tasks[i].key, bar |-> tasks[i].bar ] }
    ELSE /\ tasks' = RemoveAt(tasks, i)
         /\ UNCHANGED delivered

\* the loop runs a scheduled _ws_callback for the first time; coroutines are
\* started in the order they were scheduled
WsCallbackStart(i) ==
    /\ i \in DOMAIN tasks
    /\ tasks[i].pc = "ready"
    /\ \A j \in 1 .. i - 1 : tasks[j].pc # "ready"
    /\ IF ~tasks[i].confirm
       THEN tasks' = RemoveAt(tasks, i) /\ UNCHANGED delivered
       ELSE WsCallbackGoesOn(i, Len(md.subscriptions),
                WsCallbackScan(tasks[i].symbol, 1, 1, Len(md.subscriptions), TRUE))
    /\ UNCHANGED << md, ws, feed, pollers, tradeVars >>

\* the subscriber's callback awaited by task i returns
WsCallbackReturn(i) ==
    /\ i \in DOMAIN tasks
    /\ tasks[i].pc = "in_callback"
    /\ WsCallbackGoesOn(i, tasks[i].it_used,
            WsCallbackScan(tasks[i].symbol, tasks[i].e, tasks[i].s + 1, tasks[i].it_used, FALSE))
    /\ UNCHANGED << md, ws, feed, pollers, tradeVars >>

\* the subscriber's callback awaited by task i raises, the exception
\* propagates out of _ws_callback and ends the coroutine
WsCallbackRaisesUncaught(i) ==
    /\ i \in DOMAIN tasks
    /\ tasks[i].pc = "in_callback"
    /\ tasks' = RemoveAt(tasks, i)
    /\ UNCHANGED << md, ws, feed, delivered, pollers, tradeVars >>

\* the subscriber's callback awaited by task i raises: "except Exception"
\* logs the error and the loops of _ws_callback go on
WsCallbackRaises(i) ==
    /\ i \in DOMAIN tasks
    /\ tasks[i].pc = "in_callback"
    /\ LET found == WsCallbackScan(tasks[i].symbol, tasks[i].e, tasks[i].s + 1,
                                   tasks[i].it_used, FALSE)
       IN  IF found.kind = "deliver"
           THEN /\ tasks' = [tasks EXCEPT ![i].e = found.e, ![i].s = found.s,
                                          ![i].errors = @ + 1]
                /\ delivered' = delivered \cup
                       { [ strategy_name |-> md.subscriptions[found.e].v[found.s].strategy_name,
                           key |-> tasks[i].key, bar |-> tasks[i].bar ] }
           ELSE /\ tasks' = RemoveAt(tasks, i)
                /\ UNCHANGED delivered
    /\ UNCHANGED << md, ws, feed, pollers, tradeVars >>

\* the market data manager with the strategies on WebSocket frames
NextFanOut ==
    \/ \E s \in WsStrategies : RegisterStrategy(s)
    \/ Start
    \/ ActivateNewSubscriptions
    \/ \E k \in Keys : Watchdog(k)
    \/ \E k \in PushedKeys, confirm \in BOOLEAN : PushBar(k, confirm)
    \/ \E k \in Keys, i \in 1 .. MaxSockets : HandleKline(k, i)
    \/ \E i \in 1 .. MaxTasks : WsCallbackStart(i)
    \/ \E i \in 1 .. MaxTasks : WsCallbackReturn(i)

SpecFanOut == Init /\ [][NextFanOut]_vars

\* "unique_symbols = {s.symbol for s in subscriptions}"
UniqueSymbols(group) == { group[i].symbol : i \in DOMAIN group }

\* the orders in which "for symbol in unique_symbols" can go through the set
IterationOrders(S) ==
    { o \in [1 .. Cardinality(S) -> S] : \A i, j \in DOMAIN o : o[i] = o[j] => i = j }

\* _distribute_polling_data: the first subscription at or after position from
\* with the polled symbol and the loop's frame, 0 when there is none
RECURSIVE NextMatch(_, _, _, _)
NextMatch(group, symbol, frame, from) ==
    IF from > Len(group) THEN 0
    ELSE IF group[from].symbol = symbol /\ group[from].frame = frame THEN from
    ELSE NextMatch(group, symbol, frame, from + 1)

\* _polling_loop steps to the next symbol of the round, or the round is over
PollNextSymbol(p) ==
    IF p.symbols = << >>
    THEN [p EXCEPT !.pc = "sleep", !.symbol = "", !.pos = 0]
    ELSE [p EXCEPT !.pc = "get_ticker", !.symbol = Head(p.symbols),
                   !.symbols = Tail(p.symbols), !.pos = 0]

\* _distribute_polling_data goes on from position from of the subscriptions:
\* it awaits the next matching callback, or returns to _polling_loop
DistributePollingData(f, p, from) ==
    LET n == NextMatch(p.subscriptions, p.symbol, p.frame, from)
    IN  IF n = 0
        THEN /\ pollers' = [pollers EXCEPT ![f] = PollNextSymbol(p)]
             /\ UNCHANGED delivered
        ELSE /\ pollers' = [pollers EXCEPT ![f] = [p EXCEPT !.pc = "in_callback", !.pos = n]]
             /\ delivered' = delivered \cup
                    { [ strategy_name |-> p.subscriptions[n].strategy_name,
                        key |-> << p.symbol, p.frame >>, bar |-> p.bar ] }

\* _polling_loop of frame f begins a round and asks for the first ticker
PollRoundStart(f, order) ==
    /\ f \in DOMAIN pollers
    /\ pollers[f].pc = "sleep"
    /\ pollers[f].rounds < MaxPolls
    /\ order \in IterationOrders(UniqueSymbols(pollers[f].subscriptions))
    /\ pollers' = [pollers EXCEPT ![f] =
                      PollNextSymbol([@ EXCEPT !.symbols = order, !.rounds = @ + 1])]
    /\ UNCHANGED << md, ws, feed, tasks, delivered, tradeVars >>

\* get_ticker returns: a ticker, made a confirmed bar by _ticker_to_kline and
\* distributed, or nothing
TickerReturn(f, ok) ==
    /\ f \in DOMAIN pollers
    /\ pollers[f].pc = "get_ticker"
    /\ IF ok
       THEN DistributePollingData(f, [pollers[f] EXCEPT !.bar = @ + 1], 1)
       ELSE /\ pollers' = [pollers EXCEPT ![f] = PollNextSymbol(@)]
            /\ UNCHANGED delivered
    /\ UNCHANGED << md, ws, feed, tasks, tradeVars >>

\* the subscriber's callback awaited by _distribute_polling_data returns
PollCallbackReturn(f) ==
    /\ f \in DOMAIN pollers
    /\ pollers[f].pc = "in_callback"
    /\ DistributePollingData(f, pollers[f], pollers[f].pos + 1)
    /\ UNCHANGED << md, ws, feed, tasks, tradeVars >>

\* the subscriber's callback awaited by _distribute_polling_data raises:
\* "except Exception" logs the error and the loop over the subscriptions goes on
PollCallbackRaises(f) ==
    /\ f \in DOMAIN pollers
    /\ pollers[f].pc = "in_callback"
    /\ DistributePollingData(f, [pollers[f] EXCEPT !.errors = @ + 1], pollers[f].pos + 1)
    /\ UNCHANGED << md, ws, feed, tasks, tradeVars >>

PolledFrames == { signals[s].frame : s \in PollStrategies }

\* the market data manager with the strategies on polled frames
NextPolling ==
    \/ \E s \in PollStrategies : RegisterStrategy(s)
    \/ Start
    \/ ActivateNewSubscriptions
    \/ \E f \in PolledFrames, order \in UNION { IterationOrders(S) : S \in SUBSET Symbols } :
          PollRoundStart(f, order)
    \/ \E f \in PolledFrames, ok \in BOOLEAN : TickerReturn(f, ok)
    \/ \E f \in PolledFrames : PollCallbackReturn(f)

\* the key whose subscriber's callback may never return
SlowKey == << "BTCUSDT", "5s" >>

\* the key of the subscription whose callback poller f awaits
PollCallbackKey(f) == << pollers[f].symbol, pollers[f].frame >>

\* the event loop runs every coroutine that is ready, and the REST client's
\* requests come back; a callback on SlowKey need not return
FairPolling ==
    /\ \A f \in PolledFrames :
          /\ WF_vars(\E order \in UNION { IterationOrders(S) : S \in SUBSET Symbols } :
                        PollRoundStart(f, order))
          /\ WF_vars(\E ok \in BOOLEAN : TickerReturn(f, ok))
          /\ WF_vars(PollCallbackReturn(f) /\ PollCallbackKey(f) # SlowKey)

SpecPolling == Init /\ [][NextPolling]_vars /\ FairPolling

\* the event loop runs every coroutine that is ready, the REST client's
\* requests come back and every callback returns
FairRegistration ==
    /\ WF_vars(ActivateNewSubscriptions)
    /\ \A f \in PolledFrames :
          /\ WF_vars(\E order \in UNION { IterationOrders(S) : S \in SUBSET Symbols } :
                        PollRoundStart(f, order))
          /\ WF_vars(\E ok \in BOOLEAN : TickerReturn(f, ok))
          /\ WF_vars(PollCallbackReturn(f))

SpecRegistration == Init /\ [][NextPolling]_vars /\ FairRegistration

\* the manager started with its strategies registered, both paths dispatching
\* bars to callbacks that return or raise
DispatchStrategies == { "A", "B", "D", "E" }

NextDispatch ==
    \/ \E s \in DispatchStrategies : ~md.is_running /\ RegisterStrategy(s)
    \/ md.registered_strategies # {} /\ Start
    \/ \E k \in PushedKeys, confirm \in BOOLEAN : PushBar(k, confirm)
    \/ \E k \in Keys, i \in 1 .. MaxSockets : HandleKline(k, i)
    \/ \E i \in 1 .. MaxTasks : WsCallbackStart(i)
    \/ \E i \in 1 .. MaxTasks : WsCallbackReturn(i)
    \/ \E i \in 1 .. MaxTasks : WsCallbackRaises(i)
    \/ \E f \in PolledFrames, order \in UNION { IterationOrders(S) : S \in SUBSET Symbols } :
          /\ f \in DOMAIN pollers
          /\ pollers[f].rounds < DispatchRounds
          /\ PollRoundStart(f, order)
    \/ \E f \in PolledFrames, ok \in BOOLEAN : TickerReturn(f, ok)
    \/ \E f \in PolledFrames : PollCallbackReturn(f)
    \/ \E f \in PolledFrames : PollCallbackRaises(f)

SpecDispatch == Init /\ [][NextDispatch]_vars

\* "self.subscriptions[key] = [s for s in subscription_list if
\* s.strategy_name != strategy_name]" for every key of the registry
WithoutStrategy(subs, s) ==
    [ i \in DOMAIN subs |->
        [ k |-> subs[i].k, v |-> SelectSeq(subs[i].v, LAMBDA r : r.strategy_name # s) ] ]

\* unregister_strategy: the strategy's subscriptions are taken out of the
\* registry, the keys left with no subscriber are deleted from it and from
\* active_ws_subscriptions; the WebSocket client and the polling tasks are not
\* touched. Taken with no _ws_callback in flight, whose place in the registry
\* the model keeps by position.
UnregisterStrategy(s) ==
    /\ s \in md.registered_strategies
    /\ tasks = << >>
    /\ LET left == WithoutStrategy(md.subscriptions, s)
           keys_to_remove == { left[i].k : i \in { j \in DOMAIN left : left[j].v = << >> } }
       IN  md' = [md EXCEPT
                    !.subscriptions = SelectSeq(left, LAMBDA en : en.v # << >>),
                    !.active_ws_subscriptions = @ \ keys_to_remove,
                    !.registered_strategies = @ \ {s}]
    /\ UNCHANGED << ws, feed, tasks, delivered, pollers, tradeVars >>

UnregisterStrategies == { "A", "D", "E" }

\* the manager with strategies that come and go while the polling tasks run
NextUnregister ==
    \/ \E s \in UnregisterStrategies :
          /\ md.activations = 0
          /\ \A k \in Keys : Len(ws.sockets[k]) < MaxReconnects + 1
          /\ RegisterStrategy(s)
    \/ \E s \in UnregisterStrategies : UnregisterStrategy(s)
    \/ Start
    \/ ActivateNewSubscriptions
    \/ \E f \in PolledFrames, order \in UNION { IterationOrders(S) : S \in SUBSET Symbols } :
          /\ f \in DOMAIN pollers
          /\ pollers[f].rounds < DispatchRounds
          /\ PollRoundStart(f, order)
    \/ \E f \in PolledFrames, ok \in BOOLEAN : TickerReturn(f, ok)
    \/ \E f \in PolledFrames : PollCallbackReturn(f)

SpecUnregister == Init /\ [][NextUnregister]_vars

-----------------------------------------------------------------------------
(* One strategy's keys are subscribed and the exchange sends nothing on one
   of them; on the other keys messages keep arriving, so that their watchdogs
   do not reconnect. *)

SilentStrategy == "A"
SilentKey == << signals[SilentStrategy].index, signals[SilentStrategy].frame >>

NextWatchdog ==
    \/ ~md.is_running /\ RegisterStrategy(SilentStrategy)
    \/ md.registered_strategies # {} /\ Start
    \/ \E n \in 1 .. MaxSilentReconnects + 1 :
            ws.reconnects < MaxSilentReconnects /\ WatchdogReconnect(SilentKey, n)

SpecWatchdog == Init /\ [][NextWatchdog]_vars

-----------------------------------------------------------------------------
(* MultiSignalStrategy: preload_history, start, _on_kline_data with
   _check_signal, stop.  Every await of _get_current_price suspends the
   coroutine (the ticker is fetched on the client's thread pool). *)

\* deque.append
DequeAppend(q, x, maxlen) == IF Len(q) >= maxlen THEN Tail(q) \o << x >> ELSE Append(q, x)

\* the close a buffer holds, with the bar it came from
Close(symbol, frame, ts, close) ==
    [ symbol |-> symbol, frame |-> frame, ts |-> ts, close |-> close ]

\* a bar of the history get_klines returns for a symbol and an interval
HistoryBar(symbol, frame) == Close(symbol, frame, 0, HistoryClose)

\* how many klines preload_history appends to each buffer of a signal:
\* klines[:-1] of limit = max(tick_window, 2) klines, or klines[-2]
PreloadCount(tick_window) ==
    IF tick_window > 0 THEN (IF tick_window > 2 THEN tick_window ELSE 2) - 1 ELSE 1

RECURSIVE AppendHistory(_, _, _, _)
AppendHistory(q, bar, count, maxlen) ==
    IF count = 0 THEN q ELSE AppendHistory(DequeAppend(q, bar, maxlen), bar, count - 1, maxlen)

\* preload_history; ok[n]: get_klines returned the klines of signal n's
\* index and trade pairs (otherwise the signal is skipped)
PreloadHistory(ok) ==
    /\ mss.phase = "created"
    /\ mss' = [mss EXCEPT
                 !.phase = "preloaded",
                 !.signal_buffers =
                     [n \in DOMAIN signal_config |->
                        IF ok[n]
                        THEN LET count == PreloadCount(mss.tick_window[n])
                                 cfg == signal_config[n]
                             IN  [ index_prices |->
                                     AppendHistory(@[n].index_prices,
                                                   HistoryBar(cfg.index, cfg.frame),
                                                   count, mss.maxlen[n]),
                                   target_prices |->
                                     [p \in TradePairs |->
                                        AppendHistory(@[n].target_prices[p],
                                                      HistoryBar(p, cfg.frame),
                                                      count, mss.maxlen[n])] ]
                        ELSE @[n]]]
    /\ UNCHANGED << md, ws, feed, tasks, delivered, pollers, on_kline, botVars >>

\* MultiSignalStrategy.start: set_callback and the subscribe_kline of
\* _start_websocket_subscriptions for every (symbol, interval)
StrategyStart ==
    /\ mss.phase = "preloaded"
    /\ mss' = [mss EXCEPT !.phase = "running"]
    /\ ws' = SubscribeKline(ws, StrategyKeys)
    /\ UNCHANGED << md, feed, tasks, delivered, pollers, on_kline, botVars >>

NewOnKline(k, ts, close) ==
    [ symbol |-> k[1], frame |-> k[2], ts |-> ts, close |-> close, pc |-> "ready",
      sig |-> 0, pair |-> 0, action |-> "none", index_change |-> 0, target_change |-> 0,
      buffers |-> << >> ]

\* the exchange pushes a confirmed bar on the topic of key k while the event
\* loop runs: _handle_kline schedules callback(symbol, kline) for every entry
\* of kline_callbacks[ws_key], and _ws_callback passes it to _on_kline_data
StrategyBar(k, close) ==
    /\ mss.phase \in {"running", "stopping"}
    /\ ws.sockets[k] # << >>
    /\ mss.bars < MaxStrategyBars
    /\ mss' = [mss EXCEPT !.bars = @ + 1]
    /\ on_kline' = on_kline \o [j \in 1 .. ws.kline_callbacks[k] |->
                                  NewOnKline(k, mss.bars + 1, close)]
    /\ UNCHANGED << md, ws, feed, tasks, delivered, pollers, botVars >>

\* the appends of _on_kline_data to the buffers of signal n, under its lock
OnKlineAppend(m, n, c) ==
    IF c.symbol = signal_config[n].index
    THEN [m EXCEPT !.signal_buffers[n].index_prices =
                        DequeAppend(@, Close(c.symbol, c.frame, c.ts, c.close), m.maxlen[n])]
    ELSE IF c.symbol \in TradePairs
    THEN [m EXCEPT !.signal_buffers[n].target_prices[c.symbol] =
                        DequeAppend(@, Close(c.symbol, c.frame, c.ts, c.close), m.maxlen[n])]
    ELSE m

\* the closes _check_signal compares: first and last of the window, or the
\* last two when tick_window is 0
Endpoints(q, tick_window) ==
    IF tick_window > 0 THEN << q[1].close, q[Len(q)].close >>
    ELSE << q[Len(q) - 1].close, q[Len(q)].close >>

\* a change in percent, ((last - first) / first) * 100, as a fraction
Change(e) == [ num |-> (e[2] - e[1]) * 100, den |-> e[1] ]

\* the gates of _check_signal on index_change and target_change, without the
\* check of the same direction
PassesGatesAnyDirection(cfg, index_change, target_change) ==
    /\ ~ (Abs(index_change.num) < cfg.index_change_threshold * index_change.den)
    /\ ~ (cfg.direction = 1 /\ index_change.num < 0)
    /\ ~ (cfg.direction = -1 /\ index_change.num > 0)
    /\ ~ (Abs(target_change.num) >= cfg.target * target_change.den)

\* the gates of _check_signal on index_change and target_change: threshold of
\* the index, direction of the signal, cap of the target, same direction
PassesGates(cfg, index_change, target_change) ==
    /\ ~ (Abs(index_change.num) < cfg.index_change_threshold * index_change.den)
    /\ ~ (cfg.direction = 1 /\ index_change.num < 0)
    /\ ~ (cfg.direction = -1 /\ index_change.num > 0)
    /\ ~ (Abs(target_change.num) >= cfg.target * target_change.den)
    /\ \/ index_change.num > 0 /\ target_change.num > 0
       \/ index_change.num < 0 /\ target_change.num < 0

\* StrategyConfig.should_take_signal
should_take_signal(direction, signal_action) ==
    IF direction = 0 THEN TRUE
    ELSE IF direction = 1 THEN signal_action = "Buy"
    ELSE IF direction = -1 THEN signal_action = "Sell"
    ELSE FALSE

\* the action with the strategy's direction checked on raw_action
TakenRawAction(direction, reverse, index_change) ==
    LET raw_action == IF index_change.num > 0 THEN "Buy" ELSE "Sell"
        action == IF reverse = 1 THEN (IF raw_action = "Buy" THEN "Sell" ELSE "Buy")
                  ELSE raw_action
    IN  IF should_take_signal(direction, raw_action) THEN action ELSE "none"

\* raw_action, the reverse logic and the strategy's direction: the action of
\* the signal, "none" when should_take_signal refuses it
TakenAction(direction, reverse, index_change) ==
    LET raw_action == IF index_change.num > 0 THEN "Buy" ELSE "Sell"
        action == IF reverse = 1 THEN (IF raw_action = "Buy" THEN "Sell" ELSE "Buy")
                  ELSE raw_action
    IN  IF should_take_signal(direction, action) THEN action ELSE "none"

\* _check_signal of signal n for trade pair p up to the await of
\* _get_current_price: the action it goes on with, "none" when it skips
SignalAction(m, n, p) ==
    LET b == m.signal_buffers[n]
        required_size == WindowSize(m.tick_window[n])
    IN  IF Len(b.index_prices) < required_size \/ Len(b.target_prices[p]) < required_size
        THEN "none"
        ELSE LET ie == Endpoints(b.index_prices, m.tick_window[n])
                 te == Endpoints(b.target_prices[p], m.tick_window[n])
             IN  IF ie[1] = 0 \/ te[1] = 0 THEN "none"
                 ELSE IF ~PassesGates(signal_config[n], Change(ie), Change(te)) THEN "none"
                 ELSE TakenAction(m.direction, m.reverse[n], Change(ie))

\* the loop of _check_signal over trade_pairs from position i: the first
\* pair for which it awaits _get_current_price, 0 when there is none
RECURSIVE CheckSignalFrom(_, _, _)
CheckSignalFrom(m, n, i) ==
    IF i > Len(signal_trade_pairs) THEN 0
    ELSE IF SignalAction(m, n, signal_trade_pairs[i]) # "none" THEN i
    ELSE CheckSignalFrom(m, n, i + 1)

\* coroutine c awaiting _get_current_price for pair i of signal j, with the
\* locals _check_signal computed before the await
AwaitingPrice(m, c, j, i) ==
    LET n == SignalNames[j]
        p == signal_trade_pairs[i]
        b == m.signal_buffers[n]
    IN  [c EXCEPT !.pc = "ticker", !.sig = j, !.pair = i,
                  !.action = SignalAction(m, n, p),
                  !.index_change = Change(Endpoints(b.index_prices, m.tick_window[n])),
                  !.target_change = Change(Endpoints(b.target_prices[p], m.tick_window[n])),
                  !.buffers = << b.index_prices, b.target_prices[p] >>]

\* _on_kline_data of coroutine c from signal j of config.signals on
\* (OnKlineFrom), and from pair i of the _check_signal of signal j on
\* (OnKlineGoesOn), up to its next await of _get_current_price or its end
RECURSIVE OnKlineFrom(_, _, _)
RECURSIVE OnKlineGoesOn(_, _, _, _)
OnKlineGoesOn(m, c, j, i) ==
    LET p == CheckSignalFrom(m, SignalNames[j], i)
    IN  IF p > 0 THEN [ m |-> m, co |-> AwaitingPrice(m, c, j, p) ]
        ELSE OnKlineFrom(m, c, j + 1)

OnKlineFrom(m, c, j) ==
    IF j > Len(SignalNames) THEN [ m |-> m, co |-> [c EXCEPT !.pc = "done"] ]
    ELSE OnKlineGoesOn(OnKlineAppend(m, SignalNames[j], c), c, j, 1)

\* the coroutines after coroutine i ran up to co: it leaves the loop when it
\* ended, and it is never resumed once the bot stopped and the loop closes
AfterStep(i, co) ==
    IF co.pc = "done" \/ mss.phase = "stopped" THEN RemoveAt(on_kline, i)
    ELSE [on_kline EXCEPT ![i] = co]

\* the event loop starts the next scheduled _on_kline_data coroutine
OnKlineStart(i) ==
    /\ i \in DOMAIN on_kline
    /\ on_kline[i].pc = "ready"
    /\ \A j \in 1 .. i - 1 : on_kline[j].pc # "ready"
    /\ LET r == OnKlineFrom(mss, on_kline[i], 1)
       IN  /\ mss' = r.m
           /\ on_kline' = AfterStep(i, r.co)
    /\ UNCHANGED << md, ws, feed, tasks, delivered, pollers, botVars >>

\* the SignalResult _check_signal creates
SignalResult(c, price) ==
    [ signal_name |-> SignalNames[c.sig], action |-> c.action,
      target_pair |-> signal_trade_pairs[c.pair], target_price |-> price,
      index_change |-> c.index_change, target_change |-> c.target_change,
      ts |-> c.ts, symbol |-> c.symbol, buffers |-> c.buffers ]

\* _get_current_price returns to coroutine i: 0.0 when the ticker has no
\* result.list or the call failed, float(lastPrice) otherwise; with a price
\* the SignalResult is created and given to the strategy callback, and the
\* coroutine goes on with the next trade pair and the next signals
GetCurrentPriceReturn(i, price) ==
    /\ i \in DOMAIN on_kline
    /\ on_kline[i].pc = "ticker"
    /\ LET c == on_kline[i]
           m == IF price = 0 THEN mss
                ELSE [mss EXCEPT !.emitted = @ \cup { SignalResult(c, price) }]
           r == OnKlineGoesOn(m, c, c.sig, c.pair + 1)
       IN  /\ mss' = r.m
           /\ on_kline' = AfterStep(i, r.co)
    /\ UNCHANGED << md, ws, feed, tasks, delivered, pollers, botVars >>

\* TradingBot.stop up to its first suspension, the await of
\* order_tracker.stop_monitoring()
BotStop ==
    /\ mss.phase = "running"
    /\ mss' = [mss EXCEPT !.phase = "stopping"]
    /\ UNCHANGED << md, ws, feed, tasks, delivered, pollers, on_kline, botVars >>

\* TradingBot.stop from there to its return: strategy.stop() stops the
\* polling tasks of the provider (there is none) and clears the buffers,
\* client.close() shuts the thread pool down; the WebSocket client is not
\* touched
BotStopReturn ==
    /\ mss.phase = "stopping"
    /\ mss' = [mss EXCEPT
                 !.phase = "stopped",
                 !.signal_buffers = [n \in DOMAIN signal_config |->
                                        [ index_prices |-> << >>,
                                          target_prices |-> [p \in TradePairs |-> << >>] ]]]
    /\ UNCHANGED << md, ws, feed, tasks, delivered, pollers, on_kline, botVars >>

TickerPrices == { 0, TickerPrice }

NextStrategy ==
    \/ \E ok \in [DOMAIN signal_config -> BOOLEAN] : PreloadHistory(ok)
    \/ StrategyStart
    \/ \E k \in StrategyKeys, close \in Closes : StrategyBar(k, close)
    \/ \E i \in 1 .. MaxStrategyBars : OnKlineStart(i)
    \/ \E i \in 1 .. MaxStrategyBars, price \in TickerPrices : GetCurrentPriceReturn(i, price)
    \/ BotStop
    \/ BotStopReturn

\* the strategies the exploration starts from: any direction, and any
\* tick_window of the second signal
InitStrategy ==
    /\ InitComponents
    /\ \E direction \in {-1, 0, 1}, tick_window \in 0 .. MaxTickWindow :
          mss = NewStrategy(direction, [n \in DOMAIN signal_config |->
                                          IF n = "s2" THEN tick_window ELSE 0])

SpecStrategy == InitStrategy /\ [][NextStrategy]_vars

-----------------------------------------------------------------------------
(* BybitClient: what a call does with the exchange's answer.  The pybit
   session answers with retCode 0, with another retCode, or raises. *)

ClientOutcomes == { "ok", "retcode", "exception" }

\* one more call recorded: the function, the exchange's answer, what the
\* function returned
Called(fn, outcome, ret) ==
    [ fn |-> fn, outcome |-> outcome, ret |-> ret, raised |-> FALSE ]

\* get_klines
GetKlines(outcome) ==
    /\ bc.calls < MaxClientCalls
    /\ bc' = [bc EXCEPT
                !.calls = @ + 1,
                !.last = Called("get_klines", outcome,
                                IF outcome = "ok" THEN "klines" ELSE "empty_list")]
    /\ UNCHANGED << md, ws, feed, tasks, delivered, pollers, stratVars, normalized, report,
                    open_positions, orders, dbOrders, dbSignals, tracking_orders,
                    wallet_balance, pmStats, calls, ml, handled, now, tr, boots >>

\* get_ticker; with retCode 0 the list of tickers can be empty
GetTicker(outcome, tickers) ==
    /\ bc.calls < MaxClientCalls
    /\ bc' = [bc EXCEPT
                !.calls = @ + 1,
                !.request_count = @ + 1,
                !.error_count = IF outcome = "exception" THEN @ + 1 ELSE @,
                !.last = Called("get_ticker", outcome,
                                IF outcome = "ok" /\ tickers THEN "ticker" ELSE "None")]
    /\ UNCHANGED << md, ws, feed, tasks, delivered, pollers, stratVars, normalized, report,
                    open_positions, orders, dbOrders, dbSignals, tracking_orders,
                    wallet_balance, pmStats, calls, ml, handled, now, tr, boots >>

\* place_market_order; a qty that is empty or not positive returns None
\* before the request
PlaceMarketOrder(outcome, qty_valid) ==
    /\ bc.calls < MaxClientCalls
    /\ bc' = IF ~qty_valid
             THEN [bc EXCEPT !.calls = @ + 1,
                             !.last = Called("place_market_order", "invalid_qty", "None")]
             ELSE [bc EXCEPT
                     !.calls = @ + 1,
                     !.request_count = @ + 1,
                     !.error_count = IF outcome = "exception" THEN @ + 1 ELSE @,
                     !.last = Called("place_market_order", outcome,
                                     IF outcome = "ok" THEN "result" ELSE "None")]
    /\ UNCHANGED << md, ws, feed, tasks, delivered, pollers, stratVars, normalized, report,
                    open_positions, orders, dbOrders, dbSignals, tracking_orders,
                    wallet_balance, pmStats, calls, ml, handled, now, tr, boots >>

NextClient ==
    \/ \E outcome \in ClientOutcomes : GetKlines(outcome)
    \/ \E outcome \in ClientOutcomes, tickers \in BOOLEAN : GetTicker(outcome, tickers)
    \/ \E outcome \in ClientOutcomes, qty_valid \in BOOLEAN : PlaceMarketOrder(outcome, qty_valid)

SpecClient == Init /\ [][NextClient]_vars

-----------------------------------------------------------------------------
(* The main loop under the event loop's scheduling: an iteration that can
   begin does begin, the client's requests come back, and the exchange, on
   which every position gets closed, reports a position as gone when it is
   asked about it again and again. *)

FairMainLoop ==
    /\ WF_vars(MainLoopTop)
    /\ WF_vars(\E has_size \in BOOLEAN : GetPositionReturn(has_size))
    /\ SF_vars(GetPositionReturn(FALSE))
    /\ WF_vars(/\ ml.pc = "get_order_history"
               /\ \E reply \in HistoryReplies(orders[ml.order]) : OrderHistoryReturn(reply))
    /\ WF_vars(NotifyClosedReturn)

SpecBreaker == Init /\ [][Next]_vars /\ FairMainLoop

-----------------------------------------------------------------------------
(* check_positions with the client's get_position between it and the
   exchange *)

\* the exchange's answers to get_positions: a position with size > 0, a list
\* without one, a retCode other than 0, an exception
PositionOutcomes == { "position", "no_size", "retcode", "exception" }

\* what get_position returns: the position, or None
GetPosition(outcome) == IF outcome = "position" THEN "position" ELSE "None"

\* get_position called by check_positions: the client counts the request and
\* returns; "if position is None or float(position.get('size', 0)) == 0" then
\* _handle_position_closed begins, else the loop goes on
GetPositionCall(outcome) ==
    /\ ml.pc = "get_position"
    /\ bc.calls < MaxClientCalls
    /\ bc' = [bc EXCEPT
                !.calls = @ + 1,
                !.request_count = @ + 1,
                !.error_count = IF outcome = "exception" THEN @ + 1 ELSE @,
                !.last = Called("get_position", outcome, GetPosition(outcome))]
    /\ IF GetPosition(outcome) # "None"
       THEN LET next == CheckPositionsNext(ml, open_positions)
            IN  /\ ml' = next.ml
                /\ open_positions' = next.op
       ELSE /\ ml' = [ml EXCEPT !.pc = "get_order_history"]
            /\ UNCHANGED open_positions
    /\ UNCHANGED << md, ws, feed, tasks, delivered, pollers, stratVars, normalized, report,
                    orders, dbOrders, dbSignals, tracking_orders,
                    wallet_balance, pmStats, calls, handled, now, tr, boots >>

NextPosition ==
    \/ \E c \in Calls, sig \in SignalInputs : ExecuteMultiSignal(c, sig)
    \/ \E c \in Calls : NotifyErrorReturn(c)
    \/ \E c \in Calls, reply \in WalletReplies : WalletBalanceReturn(c, reply)
    \/ \E c \in Calls : PlaceOrderFailed(c)
    \/ \E c \in Calls : PlaceOrderSucceeded(c)
    \/ \E c \in Calls : NotifySignalReturn(c)
    \/ MainLoopTop
    \/ \E outcome \in PositionOutcomes : GetPositionCall(outcome)
    \/ /\ ml.pc = "get_order_history"
       /\ \E reply \in HistoryReplies(orders[ml.order]) : OrderHistoryReturn(reply)
    \/ NotifyClosedReturn

SpecPosition == Init /\ [][NextPosition]_vars

-----------------------------------------------------------------------------
(* BybitClient.normalize_order.  Quantities and prices are exact rationals
   (prices in USDT); the code computes them as binary floats. *)

RatDiv(a, b) == RatMul(a, [n |-> b.d, d |-> b.n])

\* math.floor(x) and math.ceil(x)
Floor(x) == x.n \div x.d
Ceil(x) == -((-x.n) \div x.d)

\* _floor_to_step
FloorToStep(value, step) ==
    IF step.n <= 0 THEN value ELSE RatMul(RatInt(Floor(RatDiv(value, step))), step)

\* _ceil_to_step
CeilToStep(value, step) ==
    IF step.n <= 0 THEN value ELSE RatMul(RatInt(Ceil(RatDiv(value, step))), step)

\* the spec normalize_order takes when get_instruments_info returned None
DefaultSpec ==
    [ qtyStep |-> RatInt(1), minOrderQty |-> RatInt(1),
      tickSize |-> Rat(1, 10000), minNotional |-> RatInt(5) ]

\* float(spec.get(name) or default)
OrDefault(x, default) == IF x.n = 0 THEN default ELSE x

\* the quantity of normalize_order; 0 stands for the refusal (None)
NormalizedQty(spec, last_price, position_size_usdt) ==
    LET qty_step == OrDefault(spec.qtyStep, RatInt(1))
        min_qty == OrDefault(spec.minOrderQty, qty_step)
        min_notional == OrDefault(spec.minNotional, RatInt(5))
        raw_qty == RatDiv(position_size_usdt, last_price)
        floored == FloorToStep(raw_qty, qty_step)
        at_least_min == IF RatLT(floored, min_qty) THEN min_qty ELSE floored
        qty == IF RatLT(RatMul(at_least_min, last_price), min_notional)
               THEN CeilToStep(RatDiv(min_notional, last_price), qty_step)
               ELSE at_least_min
    IN  IF qty.n <= 0 THEN RatInt(0) ELSE qty

\* the instrument specs the exchange can answer with: qty-step > 0 and
\* min-qty >= qty-step
QtySteps == { Rat(1, 10), RatInt(1), RatInt(2) }
MinQtys == { Rat(1, 10), RatInt(1), RatInt(3) }
TickSizes == { Rat(1, 100) }
MinNotionals == { RatInt(5), RatInt(10) }

InstrumentSpecs ==
    { [ qtyStep |-> s, minOrderQty |-> m, tickSize |-> t, minNotional |-> mn ] :
        s \in QtySteps, m \in MinQtys, t \in TickSizes, mn \in MinNotionals }

InstrumentSpecsMultiple == { sp \in InstrumentSpecs : RatLE(sp.qtyStep, sp.minOrderQty) }

\* last prices and position sizes (USDT)
LastPrices == { 1, 3, 100 }
PositionSizes == { 1, 5, 100 }

\* get_instruments_info answers from its cache, from the exchange, or None
InfoOutcomes == ClientOutcomes \cup { "cached" }

\* normalize_order, with get_instruments_info
NormalizeOrder(outcome, info, side, last_price, position_size_usdt) ==
    /\ bc.calls < MaxNormalizeCalls
    /\ LET spec == IF outcome \in {"cached", "ok"} THEN info ELSE DefaultSpec
           tick == OrDefault(spec.tickSize, Rat(1, 10000))
           qty == NormalizedQty(spec, RatInt(last_price), RatInt(position_size_usdt))
           take_profit == TakeProfitOf(side, last_price)
           stop_loss == StopLossOf(side, last_price)
       IN  normalized' =
             [ called |-> TRUE,
               spec |-> spec,
               qty_step |-> OrDefault(spec.qtyStep, RatInt(1)),
               min_notional |-> OrDefault(spec.minNotional, RatInt(5)),
               last_price |-> RatInt(last_price),
               position_size_usdt |-> RatInt(position_size_usdt),
               ok |-> qty.n > 0,
               qty |-> qty,
               tp |-> IF side = "Buy" THEN FloorToStep(take_profit, tick)
                                      ELSE CeilToStep(take_profit, tick),
               sl |-> IF side = "Buy" THEN CeilToStep(stop_loss, tick)
                                      ELSE FloorToStep(stop_loss, tick) ]
    /\ bc' = [bc EXCEPT
                !.calls = @ + 1,
                !.request_count = IF outcome = "cached" THEN @ ELSE @ + 1,
                !.error_count = IF outcome = "exception" THEN @ + 1 ELSE @,
                !.last = Called("get_instruments_info", outcome,
                                IF outcome \in {"cached", "ok"} THEN "spec" ELSE "None")]
    /\ UNCHANGED << md, ws, feed, tasks, delivered, pollers, stratVars, report,
                    open_positions, orders, dbOrders, dbSignals, tracking_orders,
                    wallet_balance, pmStats, calls, ml, handled, now, tr, boots >>

NextNormalize ==
    \E outcome \in InfoOutcomes, info \in InstrumentSpecsMultiple, side \in {"Buy", "Sell"},
       last_price \in LastPrices, position_size_usdt \in PositionSizes :
        NormalizeOrder(outcome, info, side, last_price, position_size_usdt)

SpecNormalize == Init /\ [][NextNormalize]_vars

-----------------------------------------------------------------------------
(* TradingBot._check_daily_report, called by every iteration of _main_loop
   that is not halted.  report.minutes is the wall clock in minutes since
   00:00 of day 0. *)

\* the report window: "now.hour == 0 and now.minute < 10"
ReportWindowMinutes == 10

\* minutes the clock advances in one step
ReportClockStep == 5

HourOf(minutes) == (minutes \div 60) % 24
MinuteOf(minutes) == minutes % 60
DayOf(minutes) == minutes \div 1440

InReportWindow(minutes) == HourOf(minutes) = 0 /\ MinuteOf(minutes) < ReportWindowMinutes

\* the flag after "if now.hour == 0 and now.minute < 10: if self.daily_report_sent:
\* self.daily_report_sent = False"
FlagAfterReset(sent, minutes) == IF InReportWindow(minutes) /\ sent THEN FALSE ELSE sent

\* _check_daily_report up to its await: the flag is reset inside the window,
\* and inside the window with the flag down the report is sent
CheckDailyReport ==
    /\ report.pc = "idle"
    /\ report.checks < MaxReportChecks
    /\ LET sent == FlagAfterReset(report.daily_report_sent, report.minutes)
           day == DayOf(report.minutes)
       IN  report' =
             IF InReportWindow(report.minutes) /\ ~sent
             THEN [report EXCEPT
                     !.daily_report_sent = sent,
                     !.checks = @ + 1,
                     !.pc = "notify_daily_report",
                     !.sent_day = day,
                     !.sent_count = IF report.sent_day = day THEN @ + 1 ELSE 1]
             ELSE [report EXCEPT !.daily_report_sent = sent, !.checks = @ + 1]
    /\ UNCHANGED << md, ws, feed, tasks, delivered, pollers, stratVars, clientVars,
                    open_positions, orders, dbOrders, dbSignals, tracking_orders,
                    wallet_balance, pmStats, calls, ml, handled, now, tr, boots >>

\* notify_daily_report returned: "self.daily_report_sent = True"
NotifyDailyReportReturn ==
    /\ report.pc = "notify_daily_report"
    /\ report' = [report EXCEPT !.daily_report_sent = TRUE, !.pc = "idle"]
    /\ UNCHANGED << md, ws, feed, tasks, delivered, pollers, stratVars, clientVars,
                    open_positions, orders, dbOrders, dbSignals, tracking_orders,
                    wallet_balance, pmStats, calls, ml, handled, now, tr, boots >>

\* the wall clock advances; a new day gives the loop its iterations again
ReportClock ==
    /\ report.minutes + ReportClockStep <= MaxReportMinute
    /\ report' = [report EXCEPT
                    !.minutes = @ + ReportClockStep,
                    !.checks = IF DayOf(report.minutes + ReportClockStep) # DayOf(report.minutes)
                               THEN 0 ELSE @]
    /\ UNCHANGED << md, ws, feed, tasks, delivered, pollers, stratVars, clientVars,
                    open_positions, orders, dbOrders, dbSignals, tracking_orders,
                    wallet_balance, pmStats, calls, ml, handled, now, tr, boots >>

NextReport == CheckDailyReport \/ NotifyDailyReportReturn \/ ReportClock

SpecReport == Init /\ [][NextReport]_vars

-----------------------------------------------------------------------------
(* Properties *)

\* a step in which invocation c of execute_multi_signal begins
Begins(c) == calls[c].pc = "new" /\ calls'[c].pc # "new"

\* the step of _handle_position_closed that reconciles the close of ml.order
Reconciles == ml.pc = "get_order_history" /\ ml'.pc = "notify_trade_closed"

\* a step that ends a check_positions pass, and the pairs for which the
\* exchange reported no open size during that pass
PassEnds == ml.pc \in {"get_position", "notify_trade_closed"} /\ ml'.pc = "top"

ReportedClosed ==
    IF ml.pc = "notify_trade_closed" THEN Append(ml.closed_pairs, ml.pair_name)
                                     ELSE ml.closed_pairs

OpenOrdersOf(s) == { i \in DOMAIN orders : orders[i].pair_name = s /\ orders[i].status = "OPEN" }

\* C1: for every strategy name, at no instant are two order records of that
\* strategy OPEN together.
C1AtMostOneOpen == \A s \in Strategies : Cardinality(OpenOrdersOf(s)) <= 1

C3StreakGrowsIffStopLoss ==
    [][ Reconciles =>
          LET reason == orders'[ml.order].close_reason
          IN  /\ (stop_loss_streak' > stop_loss_streak) <=> (reason = "SL")
              /\ reason = "SL" => stop_loss_streak' = stop_loss_streak + 1 ]_vars

\* C4: on every reconciled close, pnl > 0 sets the streak to 0, and pnl <= 0
\* with a reason other than SL leaves the streak as it was.
C4StreakReset ==
    [][ Reconciles =>
          LET closed == orders'[ml.order]
          IN  /\ closed.pnl.n > 0 => stop_loss_streak' = 0
              /\ (closed.pnl.n <= 0 /\ closed.close_reason # "SL")
                    => stop_loss_streak' = stop_loss_streak ]_vars

C4ProfitAfterStreak ==
    /\ ml.pc = "notify_trade_closed"
    /\ orders[ml.order].pnl.n > 0
    /\ stop_loss_streak = 0
    /\ max_stop_loss_streak > 0

\* the time of the last close that counted as a stop-loss, -1 if there is none
LastStopLossAt ==
    LET counted == { i \in DOMAIN dbOrders :
                       dbOrders[i].close_reason = "SL" /\ dbOrders[i].pnl.n <= 0 }
    IN  IF counted = {} THEN -1
        ELSE dbOrders[CHOOSE i \in counted :
                        \A j \in counted : dbOrders[j].closed_at <= dbOrders[i].closed_at].closed_at

AutoResetHours == 24

\* C5: when the streak is positive and more than 24 h have passed since the
\* last stop-loss close, the next main-loop iteration or signal evaluation
\* resets the streak to 0.
C5AutoReset ==
    [][ ( /\ stop_loss_streak > 0
          /\ LastStopLossAt >= 0
          /\ now - LastStopLossAt > AutoResetHours
          /\ \/ \E c \in Calls : Begins(c)
             \/ ml.pc = "top" /\ ml'.pc # "top" )
        => stop_loss_streak' = 0 ]_vars

\* C6: a signal with slippage_ok given to the handler while its strategy has
\* no position is passed on to execute_multi_signal; one without slippage_ok
\* never is.
C6SignalHandedOver ==
    \A i \in DOMAIN handled :
        /\ (handled[i].slippage_ok /\ ~handled[i].had_position) => handled[i].execute_called
        /\ ~handled[i].slippage_ok => ~handled[i].execute_called

\* C7: a successful placement counts one trade, and when execute_multi_signal
\* returns true the order is OPEN in memory and in the database, is the value
\* of open_positions for its strategy, is tracked under its exchange order id,
\* and the persisted SignalRecord has executed = true.
C7OpenCommitted ==
    [][ \A c \in Calls :
          /\ (calls[c].pc = "place_market_order" /\ calls'[c].pc = "notify_signal")
                => total_trades' = total_trades + 1
          /\ (calls[c].pc = "notify_signal" /\ calls'[c].pc = "done")
                => LET o == calls[c].order
                       name == calls[c].sig.strategy_name
                   IN  /\ calls'[c].ret = "True"
                       /\ orders'[o].status = "OPEN"
                       /\ dbOrders'[o].status = "OPEN"
                       /\ DictHas(open_positions', name)
                       /\ DictGet(open_positions', name) = o
                       /\ DictHas(tracking_orders', orders'[o].order_id)
                       /\ dbSignals'[calls[c].signal_id].executed ]_vars

\* C8: no step of an invocation that has not opened a position changes
\* open_positions, the tracker's map, total_trades or the orders table, and a
\* refused invocation leaves exactly one row in the signals table, its own,
\* with executed = false.
C8RefusedOpenFrame ==
    /\ [][ \A c \in Calls :
             (calls'[c] # calls[c] /\ calls'[c].order = 0) =>
                 /\ UNCHANGED << open_positions, tracking_orders, total_trades, dbOrders >>
                 /\ IF Begins(c)
                    THEN SubSeq(dbSignals', 1, Len(dbSignals)) = dbSignals
                            /\ Len(dbSignals') = Len(dbSignals) + 1
                    ELSE UNCHANGED dbSignals ]_vars
    /\ [] ( \A c \in Calls :
              (calls[c].pc = "done" /\ calls[c].ret = "False") =>
                  /\ calls[c].order = 0
                  /\ ~dbSignals[calls[c].signal_id].executed
                  /\ \A d \in Calls : (d # c /\ calls[d].pc # "new")
                                         => calls[d].signal_id # calls[c].signal_id )

C8PlacementRefused ==
    \E c \in Calls : calls[c].pc = "done" /\ calls[c].ret = "False" /\ calls[c].placed.qty # -1

\* the instrument spec normalize_order falls back to: qty-step 1, min-qty 1,
\* tick 1e-4 USDT, min-notional 5 USDT (prices in micro-USDT)
FallbackSpec ==
    [ qtyStep |-> RatInt(1), minOrderQty |-> RatInt(1),
      tickSize |-> RatInt(100), minNotional |-> RatInt(5000000) ]

\* C9: what is passed to place_market_order, and every OPEN order record, has
\* a quantity that is a multiple of the qty-step, a take-profit and stop-loss
\* that are multiples of the tick, and quantity x entry >= min-notional.
C9Normalized ==
    /\ \A c \in Calls :
         calls[c].placed.qty # -1 =>
             /\ IsMultipleOf(Rat(calls[c].placed.qty, 10000), FallbackSpec.qtyStep)
             /\ IsMultipleOf(Rat(calls[c].placed.take_profit, 100), FallbackSpec.tickSize)
             /\ IsMultipleOf(Rat(calls[c].placed.stop_loss, 100), FallbackSpec.tickSize)
    /\ \A i \in DOMAIN orders :
         orders[i].status = "OPEN" =>
             /\ IsMultipleOf(orders[i].quantity, FallbackSpec.qtyStep)
             /\ IsMultipleOf(orders[i].take_profit, FallbackSpec.tickSize)
             /\ IsMultipleOf(orders[i].stop_loss, FallbackSpec.tickSize)
             /\ RatLE(FallbackSpec.minNotional, RatMul(orders[i].quantity, orders[i].entry_price))

\* C10: a close is reconciled to CLOSED with closed_at set, in memory and in
\* the database; when the pass ends no pair for which the exchange reported no
\* open size is left in open_positions; a position with open size is left as
\* it is.
C10ClosedAndRemoved ==
    [][ /\ Reconciles =>
             /\ orders'[ml.order].status = "CLOSED"
             /\ orders'[ml.order].closed_at = now
             /\ dbOrders'[ml.order].status = "CLOSED"
             /\ dbOrders'[ml.order].closed_at = now
        /\ PassEnds =>
             \A i \in DOMAIN ReportedClosed : ~DictHas(open_positions', ReportedClosed[i])
        /\ (ml.pc = "get_position" /\ ml' # ml /\ ml'.pc # "get_order_history") =>
             /\ UNCHANGED << orders, dbOrders >>
             /\ ml.pair_name \notin { ReportedClosed[i] : i \in DOMAIN ReportedClosed }
                    => DictHas(open_positions', ml.pair_name) ]_vars

\* a step in which the order tracker processes the history of one symbol
TrackerProcesses == tr.pc = "get_order_history" /\ tr' # tr

\* C11: the close reason recorded by the coordinator's reconciliation (when
\* the history has the order) and by the order tracker is TP when the close
\* price is at or beyond the take-profit on the order's side, else SL when it
\* is at or beyond the stop-loss on the adverse side, else MANUAL.
C11SideAwareReason ==
    [][ LET Expected(o) ==
                IF o.side = "Buy"
                THEN IF RatLE(o.take_profit, o.close_price) THEN "TP"
                     ELSE IF RatLE(o.close_price, o.stop_loss) THEN "SL" ELSE "MANUAL"
                ELSE IF RatLE(o.close_price, o.take_profit) THEN "TP"
                     ELSE IF RatLE(o.stop_loss, o.close_price) THEN "SL" ELSE "MANUAL"
        IN  /\ (Reconciles /\ orders'[ml.order].close_reason # "UNKNOWN")
                  => orders'[ml.order].close_reason = Expected(orders'[ml.order])
            /\ TrackerProcesses =>
                  \A j \in DOMAIN tr'.seen :
                      tr'.seen[j].orderStatus = "Filled" =>
                          orders'[tr'.seen[j].order].close_reason
                              = Expected(orders'[tr'.seen[j].order]) ]_vars

\* C12: every order held in open_positions has an entry in the order
\* tracker's map under its exchange order id.
C12OpenIsTracked ==
    \A i \in DOMAIN open_positions :
        DictHas(tracking_orders, orders[open_positions[i].v].order_id)

\* C13: when the tracker processes a symbol's history, an order found Filled
\* becomes CLOSED and one found Cancelled becomes CANCELLED, both leave the
\* tracker's map; an order found with another status, or not found, keeps its
\* record and stays in the map; orders of other symbols are not touched.
C13TrackerTick ==
    [][ TrackerProcesses =>
          /\ { tr'.seen[j].order : j \in DOMAIN tr'.seen }
                = { Head(tr.groups).orders[j] : j \in DOMAIN Head(tr.groups).orders }
          /\ \A j \in DOMAIN tr'.seen :
                LET i == tr'.seen[j].order
                    st == tr'.seen[j].orderStatus
                IN  /\ st = "Filled" =>
                          /\ orders'[i].status = "CLOSED"
                          /\ ~DictHas(tracking_orders', orders[i].order_id)
                    /\ st = "Cancelled" =>
                          /\ orders'[i].status = "CANCELLED"
                          /\ ~DictHas(tracking_orders', orders[i].order_id)
                    /\ st \notin {"Filled", "Cancelled"} =>
                          /\ orders'[i] = orders[i]
                          /\ DictHas(tracking_orders', orders[i].order_id)
          /\ \A i \in DOMAIN orders :
                i \notin { tr'.seen[j].order : j \in DOMAIN tr'.seen }
                    => /\ orders'[i] = orders[i]
                       /\ DictHas(tracking_orders', orders[i].order_id)
                            = DictHas(tracking_orders, orders[i].order_id) ]_vars

C13FilledAndCancelled ==
    /\ \E j \in DOMAIN tr.seen :
          /\ tr.seen[j].orderStatus = "Filled"
          /\ orders[tr.seen[j].order].status = "CLOSED"
          /\ ~DictHas(tracking_orders, orders[tr.seen[j].order].order_id)
    /\ \E j \in DOMAIN tr.seen :
          /\ tr.seen[j].orderStatus = "Cancelled"
          /\ orders[tr.seen[j].order].status = "CANCELLED"
          /\ ~DictHas(tracking_orders, orders[tr.seen[j].order].order_id)

\* C14: the status of an order record, in memory and in the database, only
\* moves PENDING -> OPEN -> CLOSED or CANCELLED, and a record that is CLOSED
\* or CANCELLED keeps that status.
C14StatusMonotonic ==
    [][ LET Allowed(old, new) ==
                \/ new = old
                \/ old = "PENDING" /\ new = "OPEN"
                \/ old = "OPEN" /\ new \in {"CLOSED", "CANCELLED"}
        IN  /\ \A i \in DOMAIN orders :
                  i \in DOMAIN orders' => Allowed(orders[i].status, orders'[i].status)
            /\ \A i \in DOMAIN dbOrders :
                  i \in DOMAIN dbOrders' => Allowed(dbOrders[i].status, dbOrders'[i].status) ]_vars

\* C15: when _initialize has completed, every row of the orders table with
\* status OPEN is the value of open_positions for its strategy name and has an
\* entry in the order tracker's map.
C15RestoreComplete ==
    [][ boots' = boots + 1 =>
          \A i \in DOMAIN dbOrders' :
              dbOrders'[i].status = "OPEN" =>
                  /\ DictHas(open_positions', dbOrders'[i].pair_name)
                  /\ DictGet(open_positions', dbOrders'[i].pair_name) = i
                  /\ DictHas(tracking_orders', dbOrders'[i].order_id)
                  /\ DictGet(tracking_orders', dbOrders'[i].order_id) = i ]_vars

\* the registry key of the subscription through which a _ws_callback
\* coroutine passes its bar
EntryKeyOf(t) == md.subscriptions[t.e].k

\* a step in which coroutine i passes its bar to a subscriber's callback
DeliveryBegins(i) ==
    /\ i \in DOMAIN tasks
    /\ i \in DOMAIN tasks'
    /\ tasks'[i] # tasks[i]
    /\ tasks'[i].pc = "in_callback"

\* the websocket subscribers registered under key k
WsSubscribersOf(k) ==
    IF DictHas(md.subscriptions, k)
    THEN { r.strategy_name : r \in { DictGet(md.subscriptions, k)[n] :
                                        n \in DOMAIN DictGet(md.subscriptions, k) } }
    ELSE {}

\* C16: once the manager runs and the registrations have been activated, a
\* key that two strategies registered has exactly one WebSocket subscription,
\* whether they registered before start() or one of them after it.
C16OneSubscriptionPerKey ==
    \A k \in Keys :
        ( /\ md.is_running
          /\ md.activations = 0
          /\ ws.reconnects = 0
          /\ SourceType(k[2]) = "websocket"
          /\ Cardinality(WsSubscribersOf(k)) >= 2 )
            => Len(ws.sockets[k]) = 1

\* C17: a bar is passed to a subscriber's callback only if it is confirmed
\* and the subscription it goes through is registered under the bar's own
\* (symbol, frame).
C17ExactKeyOnly ==
    \A i \in DOMAIN tasks :
        tasks[i].pc = "in_callback" =>
            /\ tasks[i].confirm
            /\ EntryKeyOf(tasks[i]) = tasks[i].key

\* C18: a bar that is passed to a strategy's callback has not been passed to
\* that strategy before.
C18AtMostOnce ==
    [][ \A i \in DOMAIN tasks :
          DeliveryBegins(i) =>
              [ strategy_name |-> md.subscriptions[tasks'[i].e].v[tasks'[i].s].strategy_name,
                key |-> tasks'[i].key, bar |-> tasks'[i].bar ] \notin delivered ]_vars

\* C19: a strategy's callback is never running for two bars of one key at the
\* same time, and a bar is not passed to a strategy after a later bar of the
\* same key.
C19SequentialPerKey ==
    [][ /\ \A i, j \in DOMAIN tasks' :
             ( /\ tasks'[i].pc = "in_callback"
               /\ tasks'[j].pc = "in_callback"
               /\ md'.subscriptions[tasks'[i].e].v[tasks'[i].s].strategy_name
                    = md'.subscriptions[tasks'[j].e].v[tasks'[j].s].strategy_name
               /\ tasks'[i].key = tasks'[j].key )
                 => tasks'[i].bar = tasks'[j].bar
        /\ \A i \in DOMAIN tasks :
             DeliveryBegins(i) =>
                 \A d \in delivered :
                     ( /\ d.strategy_name
                            = md.subscriptions[tasks'[i].e].v[tasks'[i].s].strategy_name
                       /\ d.key = tasks'[i].key )
                         => d.bar <= tasks'[i].bar ]_vars

\* poller f is in a round and has not come to symbol yet
PollAwaits(f, symbol) ==
    /\ f \in DOMAIN pollers
    /\ pollers[f].pc # "sleep"
    /\ \E i \in DOMAIN pollers[f].symbols : pollers[f].symbols[i] = symbol

\* poller f has come to symbol, or its round is over
PollServes(f, symbol) ==
    /\ f \in DOMAIN pollers
    /\ \A i \in DOMAIN pollers[f].symbols : pollers[f].symbols[i] # symbol

\* C20: a callback that does not return on one key does not keep the polling
\* loop from the other symbols of its round: every symbol other than the slow
\* key's that the round has yet to poll is polled.
C20UnrelatedKeyServed ==
    \A f \in PolledFrames : \A symbol \in Symbols \ { SlowKey[1] } :
        PollAwaits(f, symbol) ~> PollServes(f, symbol)

\* the next websocket subscription of the registry entry through which task t
\* is passing its bar, 0 when t is at the entry's last one
NextInEntry(t) ==
    LET v == md.subscriptions[t.e].v
        later == { n \in DOMAIN v : n > t.s /\ v[n].source_type = "websocket" }
    IN  IF later = {} THEN 0 ELSE CHOOSE n \in later : \A m \in later : n <= m

\* C21: whether a subscriber's callback returns or raises, the bar goes on to
\* the next subscriber of its key: a _ws_callback coroutine that still has a
\* subscriber of the entry to call is in that subscriber's callback after the
\* step, a polling loop that still has a matching subscription is in its
\* callback, and one that has none goes on to the next symbol.
C21CallbackFailureContained ==
    [][ /\ \A i \in DOMAIN tasks :
             ( /\ tasks[i].pc = "in_callback"
               /\ NextInEntry(tasks[i]) # 0 )
                 => \E j \in DOMAIN tasks' :
                       /\ tasks'[j].pc = "in_callback"
                       /\ tasks'[j].key = tasks[i].key
                       /\ tasks'[j].bar = tasks[i].bar
                       /\ tasks'[j].e = tasks[i].e
                       /\ tasks'[j].s \in { tasks[i].s, NextInEntry(tasks[i]) }
                       /\ tasks'[j].s = tasks[i].s => tasks'[j].errors = tasks[i].errors
        /\ \A f \in DOMAIN pollers :
             ( /\ pollers[f].pc = "in_callback"
               /\ pollers'[f] # pollers[f] )
                 => LET n == NextMatch(pollers[f].subscriptions, pollers[f].symbol,
                                       pollers[f].frame, pollers[f].pos + 1)
                    IN  IF n # 0
                        THEN pollers'[f].pc = "in_callback" /\ pollers'[f].pos = n
                        ELSE IF pollers[f].symbols = << >>
                        THEN pollers'[f].pc = "sleep"
                        ELSE /\ pollers'[f].pc = "get_ticker"
                             /\ pollers'[f].symbol = Head(pollers[f].symbols) ]_vars

\* a callback raised on each path and the next subscriber of the same bar is
\* being called
C21RaisedAndWentOn ==
    /\ \E i \in DOMAIN tasks :
          /\ tasks[i].pc = "in_callback"
          /\ tasks[i].errors > 0
          /\ md.subscriptions[tasks[i].e].k = tasks[i].key
    /\ \E f \in DOMAIN pollers :
          /\ pollers[f].pc = "in_callback"
          /\ pollers[f].errors > 0
          /\ pollers[f].subscriptions[pollers[f].pos].strategy_name = "E"

\* a step in which the polling loop of frame f begins to await a callback
PollDeliveryBegins(f) ==
    /\ f \in DOMAIN pollers
    /\ pollers'[f] # pollers[f]
    /\ pollers'[f].pc = "in_callback"

\* C22: once a strategy is unregistered its callback is not invoked by a
\* polling task, and a key left with no subscriber has no WebSocket
\* subscription any more.
C22UnregisterReleases ==
    [][ /\ \A f \in PolledFrames :
             PollDeliveryBegins(f) =>
                 pollers'[f].subscriptions[pollers'[f].pos].strategy_name
                     \in md.registered_strategies
        /\ \A k \in Keys :
             (md.is_running /\ md' # md /\ ~DictHas(md'.subscriptions, k))
                 => ws'.sockets[k] = << >> ]_vars

\* no key of a registry lists a strategy twice
ListsOnce(subs) ==
    \A e \in DOMAIN subs : \A i, j \in DOMAIN subs[e].v :
        subs[e].v[i].strategy_name = subs[e].v[j].strategy_name => i = j

\* C23: register_strategy for a registered strategy leaves the manager as it
\* is (registry, registered set, no activation task, so no new subscription),
\* and neither the registry nor _add_subscription for any strategy and key
\* lists a strategy twice under a key.
C23RegisterIdempotent ==
    /\ \A s \in md.registered_strategies : Registered(md, s) = md
    /\ ListsOnce(md.subscriptions)
    /\ \A s \in DataStrategies, k \in Keys : ListsOnce(AddSubscription(md.subscriptions, s, k))

\* the manager runs with two strategies registered under one key and nothing
\* left to activate
C23SharedKeyRunning ==
    /\ md.is_running
    /\ md.activations = 0
    /\ \E k \in Keys : Cardinality(WsSubscribersOf(k)) >= 2

RECURSIVE SumOf(_)
SumOf(q) == IF q = << >> THEN 0 ELSE Head(q) + SumOf(Tail(q))

\* the reconnects the watchdogs of ws_key k made
ReconnectAttempts(k) == SumOf(ws.watchdogs[k])

\* C24: while a key stays silent its watchdogs tear it down and subscribe it
\* again, and they make at most max_reconnect_attempts attempts for it.
C24ReconnectsCapped ==
    ReconnectAttempts(SilentKey) <= max_reconnect_attempts

\* the buffers of the strategy: index_prices and target_prices of every signal
Buffers ==
    { mss.signal_buffers[n].index_prices : n \in DOMAIN signal_config }
    \cup { mss.signal_buffers[n].target_prices[p] : n \in DOMAIN signal_config, p \in TradePairs }

\* C25: in every buffer the closes stand in non-decreasing order of the
\* timestamps of the bars they came from, whatever the interleaving of the
\* bar callbacks that suspend on the ticker fetch.
C25BufferOrder ==
    \A q \in Buffers : \A i, j \in DOMAIN q : i < j => q[i].ts <= q[j].ts

\* C26: the close of a bar of symbol S at timeframe F is only ever in the
\* buffers of the signals whose timeframe is F, in the index buffer of those
\* with index S and in the buffer of trade pair S; no other buffer holds it.
C26OwnTimeframeOnly ==
    \A n \in DOMAIN signal_config :
        LET b == mss.signal_buffers[n]
        IN  /\ \A i \in DOMAIN b.index_prices :
                  /\ b.index_prices[i].frame = signal_config[n].frame
                  /\ b.index_prices[i].symbol = signal_config[n].index
            /\ \A p \in TradePairs : \A i \in DOMAIN b.target_prices[p] :
                  /\ b.target_prices[p][i].frame = signal_config[n].frame
                  /\ b.target_prices[p][i].symbol = p

\* C27: the capacity of the buffers of every signal is max(tick_window, 2),
\* and no buffer ever holds more closes than that.
C27CapacityMaxWindowTwo ==
    \A n \in DOMAIN signal_config :
        LET capacity == IF mss.tick_window[n] > 2 THEN mss.tick_window[n] ELSE 2
        IN  /\ mss.maxlen[n] = capacity
            /\ Len(mss.signal_buffers[n].index_prices) <= capacity
            /\ \A p \in TradePairs : Len(mss.signal_buffers[n].target_prices[p]) <= capacity

\* C28: every SignalResult emitted for a signal and a trade pair was computed
\* from an index change of at least the signal's threshold, a target change
\* below the signal's target, and the two of the same sign.
C28EmittedPassedGates ==
    \A r \in mss.emitted :
        LET cfg == signal_config[r.signal_name]
        IN  /\ Abs(r.index_change.num) >= cfg.index_change_threshold * r.index_change.den
            /\ Abs(r.target_change.num) < cfg.target * r.target_change.den
            /\ \/ r.index_change.num > 0 /\ r.target_change.num > 0
               \/ r.index_change.num < 0 /\ r.target_change.num < 0

\* a bar's callback ran to its end, one signal emitted on it and the other
\* signal did not
C28EmittedByOneSignal ==
    /\ on_kline = << >>
    /\ \E r \in mss.emitted : \A o \in mss.emitted : o.signal_name = r.signal_name

\* C29: the action of an emitted signal is Buy on a rise of the index and
\* Sell on a fall, flipped when the signal's reverse is 1, and it is this final
\* action that the strategy's direction admits: only Buy with direction 1,
\* only Sell with direction -1.
C29FinalActionFiltered ==
    \A r \in mss.emitted :
        /\ r.action = IF (r.index_change.num > 0) = (mss.reverse[r.signal_name] = 0)
                      THEN "Buy" ELSE "Sell"
        /\ mss.direction = 1 => r.action = "Buy"
        /\ mss.direction = -1 => r.action = "Sell"

\* a strategy with a direction emitted a signal whose action was flipped
C29EmittedReversed ==
    /\ mss.direction # 0
    /\ \E r \in mss.emitted : mss.reverse[r.signal_name] = 1

\* C30: once stop() has returned the WebSocket streams of the strategy are
\* torn down and every buffer of the strategy is and stays empty (no bar
\* callback runs any more).
C30StoppedIsQuiet ==
    mss.phase = "stopped" =>
        /\ \A k \in StrategyKeys : ws.sockets[k] = << >>
        /\ \A q \in Buffers : q = << >>

\* the value a function of the client returns when the call failed
SafeDefault(fn) == IF fn = "get_klines" THEN "empty_list" ELSE "None"

\* C31: a call whose exchange request raised or was answered with a retCode
\* other than 0 adds one to error_count, returns the safe default and does not
\* raise.
C31FailureCountedAndContained ==
    [][ (bc'.calls = bc.calls + 1 /\ bc'.last.outcome \in {"retcode", "exception"})
            => /\ bc'.error_count = bc.error_count + 1
               /\ bc'.last.ret = SafeDefault(bc'.last.fn)
               /\ ~bc'.last.raised ]_vars

\* the reply of get_order_history without a record of the order
NoRecord == [match |-> FALSE, avgPrice |-> 0]

\* a reconciliation step whose order history had no record of the order
ReconcilesUnknown ==
    Reconciles /\ orders'[ml.order] = ClosedRecord(orders[ml.order], NoRecord)

\* C32: a close reconciled from a history without a record of the order sets
\* the order CLOSED with close reason UNKNOWN, in memory and in the database,
\* and when the pass ends no pair closed that way is left in open_positions.
C32UnknownClosedAndRemoved ==
    [][ /\ ReconcilesUnknown =>
             /\ orders'[ml.order].status = "CLOSED"
             /\ orders'[ml.order].close_reason = "UNKNOWN"
             /\ dbOrders'[ml.order].status = "CLOSED"
             /\ dbOrders'[ml.order].close_reason = "UNKNOWN"
        /\ PassEnds =>
             \A i \in DOMAIN open_positions' :
                 LET o == orders'[open_positions'[i].v]
                 IN  ~(o.status = "CLOSED" /\ o.close_reason = "UNKNOWN") ]_vars

\* C33: whenever normalize_order succeeds for an instrument spec with
\* qty-step > 0 and min-qty >= qty-step, the returned quantity is an exact
\* multiple of the qty-step and quantity x price >= min-notional.
C33NormalizedQty ==
    (normalized.called /\ normalized.ok)
        => /\ IsMultipleOf(normalized.qty, normalized.qty_step)
           /\ RatLE(normalized.min_notional, RatMul(normalized.qty, normalized.last_price))

\* C34: on no calendar day is the daily report sent more than once, however
\* many iterations of the main loop fall inside the report window.
C34ReportOncePerDay == report.sent_count <= 1

\* C35: a close is reconciled once: the step of check_positions that
\* reconciles an order (statistics, streak, database row; the notification
\* follows it) is taken only for an order that was not reconciled before, so
\* that for no order these change twice.
C35ReconciledOnce == [][ Reconciles => orders[ml.order].status = "OPEN" ]_vars

\* C36: an order is reconciled as closed only after a get_position call in
\* which the exchange reported no open size; a call that failed (an exception
\* or a retCode other than 0) leaves the order OPEN and in open_positions.
C36ClosedOnlyWhenNoSize ==
    [][ /\ Reconciles => bc.last.outcome = "no_size"
        /\ (ml.pc = "get_position" /\ bc'.last.outcome \in {"retcode", "exception"}
                /\ bc'.calls = bc.calls + 1)
             => /\ ml'.pc # "get_order_history"
                /\ DictHas(open_positions', ml.pair_name) ]_vars

\* C37: while the stop-loss streak is at its cap the main loop goes on
\* reconciling: a position held in open_positions, which the exchange has
\* closed, is eventually removed from open_positions.
C37HaltedStillReconciles ==
    \A s \in Strategies :
        (StreakLimitReached(stop_loss_streak) /\ DictHas(open_positions, s))
            ~> ~DictHas(open_positions, s)

\* the symbols whose bars _on_kline_data appends to the buffers of signal n
OwnSymbols(n) == { signal_config[n].index } \cup TradePairs

KeysOf(s) ==
    { << signals[s].index, signals[s].frame >> }
        \cup { << data_trade_pairs[s][i], signals[s].frame >> : i \in DOMAIN data_trade_pairs[s] }

\* the polling loop of k's frame is passing a bar of key k to the subscribers
Distributing(k) ==
    /\ k[2] \in DOMAIN pollers
    /\ pollers[k[2]].pc = "in_callback"
    /\ pollers[k[2]].symbol = k[1]

C40WinsWithinTrades == profitable_trades <= total_trades

====
